---- MODULE Spec2Model ----
\* DynamoWarehouse (datawarehouse/implementations.py): the source-file write
\* decision (store), the conditional insert into the source table, the
\* reads by primary key (retrieve, retrieve_versions), parsed files and
\* metadata updates (store with parsed_file, update_metadata_item), and the
\* source registry (update_source_registry).
EXTENDS Integers, Sequences, FiniteSets, TLC

VARIABLES
    selected,      \* the collection selected on the client (_database/_collection)
    sourceTable,   \* the DynamoDB source table: a set of items
    sourceBucket,  \* the S3 source bucket: s3 key -> object body
    resp,          \* outcome of the client's last call (return value or raised error)
    pc,            \* concurrent writers: position inside store_source
    pending,       \* concurrent writers: the metadata built by store_source
    parsedBucket,  \* the S3 parsed bucket: s3 key -> object body
    registryTable, \* the DynamoDB registry table: collection -> entry
    registryCache, \* the client's registry cache (_reg_cache): collection -> entry
    now,           \* the clock the client reads (datetime.now), in seconds
    cachedAt,      \* _reg_cache: collection -> the time its entry was cached
    lastScan,      \* _last_scan: the time of the last full registry scan
    held,          \* the registry value the caller holds from its last call
    cacheTtl,      \* _cache_ttl: the seconds a cached entry stays valid
    sesh           \* the assumed-role session: _sesh_expiry and the clients made from it

vars == <<selected, sourceTable, sourceBucket, resp, pc, pending,
          parsedBucket, registryTable, registryCache, now, cachedAt, lastScan,
          held, cacheTtl, sesh>>

-----------------------------------------------------------------------------
\* Bounds of the model.

MaxRows == 3

\* Program constants.

UidLen == 8

\* the registry cache TTL in seconds when none is configured
DEFAULT_CACHE_TTL == 300

-----------------------------------------------------------------------------
\* Inputs.

Database == "test_database"

Collections == {"test_last_modified", "test_collection"}

\* The registry entries of the two collections the tests register.
Registry ==
    [c \in Collections |->
        [primary_key_fields |-> <<"url">>,
         required_metadata_fields |->
            IF c = "test_last_modified" THEN <<"last-modified">> ELSE <<"filename">>]]

\* The type tags of the two collections' metadata fields.
TypeMaps ==
    [c \in Collections |->
        IF c = "test_last_modified"
        THEN [url |-> "STR", last_modified |-> "DATETIME"]
        ELSE [url |-> "STR", filename |-> "STR"]]

\* The parsers registered for a collection: "test_collection" has two, the
\* first registered being the default; "test_last_modified" has none.
Parsers ==
    [c \in Collections |->
        IF c = "test_collection"
        THEN [parser_1 |-> [default |-> TRUE], parser_2 |-> [default |-> FALSE]]
        ELSE <<>>]

\* The registry table once the collections and their parsers are registered.
RegisteredCollections ==
    [c \in Collections |->
        [primary_key_fields |-> Registry[c].primary_key_fields,
         required_metadata_fields |-> Registry[c].required_metadata_fields,
         metadata_type_map |-> TypeMaps[c],
         parsers |-> Parsers[c]]]

\* the cache of a client that has selected the collection: select_collection
\* reads the entry from the registry table and caches it
SelectedCached(coll) ==
    [c \in {coll} |-> RegisteredCollections[c]]

\* An optional value is a sequence: empty for None, else holding the value.
None == <<>>
Some(value) == <<value>>

\* no role_arn is configured: no session is assumed and none expires
NoRole == [role_arn |-> FALSE, _sesh_duration |-> None, _sesh_expiry |-> None,
           _s3 |-> None, _dynamo |-> None]

\* the time each entry of a cache was stored, for a cache filled at time t
CachedAt(cache, t) == [c \in DOMAIN cache |-> t]

PKeys == {"u1", "u2"}
Contents == {"A", "B"}
RetrievedDates == {9, 10, 11}
LastModifieds == {1, 2}

\* A source file handed to store: its body and the metadata the caller sets.
\* Two files of "u1" agree or differ in body and in last-modified in every
\* combination, and their epochs have the same number of digits; the
\* releases of "u2" have one body, and epochs of different widths.
Files ==
    {f \in [url : PKeys, content : Contents,
            retrieved_date : RetrievedDates, last_modified : LastModifieds] :
        IF f.url = "u1"
        THEN /\ ~ (f.content = "B" /\ f.last_modified = 2)
             /\ f.retrieved_date \in {10, 11}
        ELSE /\ f.content = "A" /\ f.last_modified = 1
             /\ f.retrieved_date \in {9, 10}}

NoVersion == <<>>
NoResult == <<>>
NoSuchKey == "NoSuchKey"

\* the error code botocore raises when a put_item ConditionExpression fails
ConditionalCheckFailed == "ConditionalCheckFailedException"

-----------------------------------------------------------------------------
\* Strings are sequences of byte values, as the index store collates them.

Underscore == 95

RECURSIVE Digits(_)
\* str(int) of a non-negative epoch
Digits(n) ==
    IF n < 10 THEN <<48 + n>> ELSE Append(Digits(n \div 10), 48 + (n % 10))

\* uuid4().hex[:8]: eight lowercase hex characters
Uid(c) == [i \in 1..UidLen |-> IF i < UidLen THEN 48 ELSE c]

Uids == {Uid(97), Uid(98)}

RECURSIVE StrLess(_, _)
\* byte-wise order of two strings (the order of a string sort key)
StrLess(a, b) ==
    IF a = <<>> THEN b # <<>>
    ELSE IF b = <<>> THEN FALSE
    ELSE IF Head(a) # Head(b) THEN Head(a) < Head(b)
    ELSE StrLess(Tail(a), Tail(b))

-----------------------------------------------------------------------------
\* Key derivation.

get_md5(content) == <<"md5", content>>

required_metadata_fields(coll) ==
    Registry[coll].primary_key_fields \o Registry[coll].required_metadata_fields

InSeq(x, s) == \E i \in 1..Len(s) : s[i] = x

_get_collection_id(coll) == <<Database, "_", coll>>

_generate_hash_key(coll, url) == <<Database, coll, <<"sha256", url>>>>

_generate_range_key(retrieved_date, uid) ==
    Digits(retrieved_date) \o <<Underscore>> \o uid

_generate_s3_key(hash_key, range_key) ==
    <<hash_key[1], hash_key[2], range_key, hash_key[3]>>

-----------------------------------------------------------------------------
\* Index store and object store.

ItemKey(item) == <<item.file_key, item.source_version>>

HasItem(table, hash_key, range_key) ==
    \E r \in table : ItemKey(r) = <<hash_key, range_key>>

\* put_item: the item replaces any item with the same key
PutItem(table, item) ==
    {r \in table : ItemKey(r) # ItemKey(item)} \cup {item}

\* a put without the condition expression
ConditionDropped(table, item) == TRUE

\* attribute_not_exists(file_key) AND attribute_not_exists(source_version)
ConditionHolds(table, item) ==
    ~ HasItem(table, item.file_key, item.source_version)

\* an insert that puts the item whatever the table holds
InsertUnconditional(table, item) ==
    [table |-> PutItem(table, item), raised |-> FALSE]

\* _insert_source_table_item: the table after the call and whether it raised
_insert_source_table_item(table, item) ==
    IF ConditionHolds(table, item)
    THEN [table |-> PutItem(table, item), raised |-> FALSE]
    ELSE [table |-> table, raised |-> TRUE]

\* an upload that keeps the object already stored under the key
S3InsertIfAbsent(bucket, s3_key, content) ==
    [k \in (DOMAIN bucket) \cup {s3_key} |->
        IF k \in DOMAIN bucket THEN bucket[k] ELSE content]

\* upload_fileobj: the object is written under its key, replacing any other
_s3_insert(bucket, s3_key, content) ==
    [k \in (DOMAIN bucket) \cup {s3_key} |->
        IF k = s3_key THEN content ELSE bucket[k]]

\* _s3_retrieve: the body, or no result on NoSuchKey
_s3_retrieve(bucket, item) ==
    LET s3_key == _generate_s3_key(item.file_key, item.source_version)
    IN  IF s3_key \in DOMAIN bucket THEN bucket[s3_key] ELSE NoSuchKey

VersionsOf(table, hash_key) == {r \in table : r.file_key = hash_key}

RECURSIVE SortItems(_, _)
\* the items of one hash key in sort-key order
SortItems(items, ascending) ==
    IF items = {} THEN <<>>
    ELSE LET first ==
                CHOOSE r \in items :
                    \A o \in items \ {r} :
                        IF ascending
                        THEN StrLess(r.source_version, o.source_version)
                        ELSE StrLess(o.source_version, r.source_version)
         IN  <<first>> \o SortItems(items \ {first}, ascending)

\* _query_source_table with _file_query_criteria(hash_key, ascending)
_query_source_table(table, hash_key, ascending) ==
    SortItems(VersionsOf(table, hash_key), ascending)

\* next(retrieve_versions(primary_key, latest_first=True)): the first item of
\* the query, as a sequence that is empty on StopIteration
LatestItem(table, hash_key) ==
    LET results == _query_source_table(table, hash_key, FALSE)
    IN  IF Len(results) = 0 THEN <<>> ELSE <<results[1]>>

-----------------------------------------------------------------------------
\* Outcomes of a call: the value returned or the error raised.

Returned(status, version, result) ==
    [status |-> status, source_version |-> version, result |-> result]

Raised(error) ==
    [status |-> error, source_version |-> NoVersion, result |-> NoResult]

\* the stores after a call, and its outcome
Effect(table, bucket, outcome) ==
    [table |-> table, bucket |-> bucket, resp |-> outcome]

-----------------------------------------------------------------------------
\* store

\* the metadata store_source builds for the file
SourceMetadata(coll, f, uid) ==
    LET hash_key == _generate_hash_key(coll, f.url)
        range_key == _generate_range_key(f.retrieved_date, uid)
    IN  [file_key |-> hash_key,
         source_version |-> range_key,
         feed_id |-> _get_collection_id(coll),
         url |-> f.url,
         retrieved_date |-> f.retrieved_date,
         last_modified |-> f.last_modified,
         md5 |-> get_md5(f.content),
         s3_key |-> _generate_s3_key(hash_key, range_key)]

\* store_source with the failed insert reported as the generic OperationError
StoreSourceGeneric(table, bucket, coll, f, uid) ==
    LET metadata == SourceMetadata(coll, f, uid)
        uploaded == _s3_insert(bucket, metadata.s3_key, f.content)
        inserted == _insert_source_table_item(table, metadata)
    IN  IF inserted.raised
        THEN Effect(inserted.table, uploaded, Raised("OperationError"))
        ELSE Effect(inserted.table, uploaded,
                    Returned("SUCCESS", metadata.source_version, NoResult))

\* store_source: upload, then the conditional insert; when the insert raises,
\* the index store's
\* ConditionalCheckFailedException (a botocore ClientError) leaves store,
\* uncaught
store_source(table, bucket, coll, f, uid) ==
    LET metadata == SourceMetadata(coll, f, uid)
        uploaded == _s3_insert(bucket, metadata.s3_key, f.content)
        inserted == _insert_source_table_item(table, metadata)
    IN  IF inserted.raised
        THEN Effect(inserted.table, uploaded, Raised(ConditionalCheckFailed))
        ELSE Effect(inserted.table, uploaded,
                    Returned("SUCCESS", metadata.source_version, NoResult))

\* the duplicate check of a plain store against the latest stored metadata
IsDuplicate(coll, stored_metadata, f) ==
    \/ stored_metadata.md5 = get_md5(f.content)
    \/ /\ InSeq("last-modified", required_metadata_fields(coll))
       /\ stored_metadata.last_modified = f.last_modified

\* store(file, force_store, compare_source) of a source file; `compare` is
\* "none" or the value the callback returns
store(table, bucket, coll, f, force_store, compare, uid) ==
    LET hash_key == _generate_hash_key(coll, f.url)
        latest == LatestItem(table, hash_key)
    IN  IF force_store
        THEN store_source(table, bucket, coll, f, uid)
        ELSE IF compare # "none"
        THEN IF /\ latest # <<>>
                /\ _s3_retrieve(bucket, latest[1]) # NoSuchKey
                /\ compare = "equal"
             THEN Effect(table, bucket,
                         Returned("ALREADY_EXIST", latest[1].source_version, NoResult))
             ELSE store_source(table, bucket, coll, f, uid)
        ELSE IF latest # <<>> /\ IsDuplicate(coll, latest[1], f)
             THEN Effect(table, bucket,
                         Returned("ALREADY_EXIST", latest[1].source_version, NoResult))
             ELSE store_source(table, bucket, coll, f, uid)

-----------------------------------------------------------------------------
\* retrieve, retrieve_versions

\* a get that falls back to the latest version of the hash key
GetItemOrLatest(table, hash_key, range_key) ==
    IF HasItem(table, hash_key, range_key)
    THEN <<CHOOSE r \in table : ItemKey(r) = <<hash_key, range_key>>>>
    ELSE LatestItem(table, hash_key)

\* _get_source_table_item: the item as a one-element sequence, empty when
\* the call raises OperationError
_get_source_table_item(table, hash_key, range_key) ==
    IF HasItem(table, hash_key, range_key)
    THEN <<CHOOSE r \in table : ItemKey(r) = <<hash_key, range_key>>>>
    ELSE <<>>

\* what retrieve returns for an item: its metadata or its stream
Fetched(bucket, item, metadata_only) ==
    IF metadata_only
    THEN Returned("OK", item.source_version, NoResult)
    ELSE LET body == _s3_retrieve(bucket, item)
         IN  IF body = NoSuchKey
             THEN Returned("None", NoVersion, NoResult)
             ELSE Returned("OK", item.source_version, <<body>>)

\* retrieve(primary_key, source_version, metadata_only)
retrieve(table, bucket, coll, url, source_version, metadata_only) ==
    LET hash_key == _generate_hash_key(coll, url)
    IN  IF source_version = NoVersion
        THEN LET latest == LatestItem(table, hash_key)
             IN  IF latest = <<>>
                 THEN Returned("None", NoVersion, NoResult)
                 ELSE Fetched(bucket, latest[1], metadata_only)
        ELSE LET metadata == _get_source_table_item(table, hash_key, source_version)
             IN  IF metadata = <<>>
                 THEN Raised("OperationError")
                 ELSE Fetched(bucket, metadata[1], metadata_only)

\* list(retrieve_versions(primary_key, metadata_only=True, latest_first)):
\* the versions in the order they are yielded
retrieve_versions(table, coll, url, latest_first) ==
    LET results == _query_source_table(table, _generate_hash_key(coll, url),
                                       ~ latest_first)
    IN  Returned("OK", NoVersion,
                 [i \in 1..Len(results) |-> results[i].source_version])

-----------------------------------------------------------------------------
\* Metadata as the index store keeps it (_encode_metadata, _decode_metadata).

\* Python's None, as dict.get returns it for a missing key
PyNone == "None"

\* EXTENDED_MAPS: the fields the engine types itself
EXTENDED_MAPS ==
    [content_start |-> "DATETIME", content_end |-> "DATETIME",
     last_modified |-> "DATETIME", retrieved_date |-> "DATETIME",
     release_date |-> "DATETIME", md5 |-> "STR", bytes |-> "BOOL",
     s3_key |-> "STR"]

\* _type: the collection's type map, then EXTENDED_MAPS, else None
_type(coll, key) ==
    IF key \in DOMAIN TypeMaps[coll] THEN TypeMaps[coll][key]
    ELSE IF key \in DOMAIN EXTENDED_MAPS THEN EXTENDED_MAPS[key]
    ELSE PyNone

\* get_type(value) of the values the callers of the model hand in, by field:
\* content_start and content_end are datetimes <<epoch second, microsecond>>,
\* row_count is an int, every other field holds what store_source wrote
ValueType(coll, key) ==
    IF key = "row_count" THEN "INT"
    ELSE IF _type(coll, key) # PyNone THEN _type(coll, key)
    ELSE "STR"

\* the keys _encode_metadata keeps: typed keys and string values; a key
\* without a type whose value is no string is dropped with a warning
Kept(coll, key) == _type(coll, key) # PyNone \/ ValueType(coll, key) = "STR"

\* a datetime is written as str(timestamp.from_datetime(v)), whole epoch
\* seconds, and read back by timestamp.to_datetime(int(val))
DatetimeStored(v) == <<v[1], 0>>

\* decode(encode(value)): the value a later read returns for a written one
StoredValue(coll, key, value) ==
    IF key \in {"content_start", "content_end"}
    THEN DatetimeStored(value)
    ELSE value

\* _encode_metadata of a dict, as the dict a later _decode_metadata returns
Encoded(coll, metadata) ==
    [k \in {key \in DOMAIN metadata : Kept(coll, key)} |->
        StoredValue(coll, k, metadata[k])]

\* value != source_metadata.get(key), for a value that is not None
Differs(metadata, source_metadata, key) ==
    key \notin DOMAIN source_metadata \/ metadata[key] # source_metadata[key]

\* the dict put in place of the old one
Replaced(metadata, update) == update

\* dict.update
Updated(metadata, update) ==
    [k \in DOMAIN metadata \cup DOMAIN update |->
        IF k \in DOMAIN update THEN update[k] ELSE metadata[k]]

-----------------------------------------------------------------------------
\* update_metadata_item and the parsed-file path of store.

NoParser == ""

\* the primary key fields alone
IllegalPrimaryKeysOnly(coll) ==
    {Registry[coll].primary_key_fields[i] :
        i \in 1..Len(Registry[coll].primary_key_fields)}

\* primary_key_fields + (RETRIEVED_FIELD,)
IllegalUpdateKeys(coll) ==
    {Registry[coll].primary_key_fields[i] :
        i \in 1..Len(Registry[coll].primary_key_fields)} \cup {"retrieved_date"}

\* an update that puts the encoded values in place of the whole row
UpdateItemReplacing(table, hash_key, range_key, encoded) ==
    {IF ItemKey(r) = <<hash_key, range_key>>
     THEN Updated([file_key |-> r.file_key, source_version |-> r.source_version],
                  encoded)
     ELSE r : r \in table}

\* update_item with the SET expression: the row takes the encoded values
UpdateItem(table, hash_key, range_key, encoded) ==
    {IF ItemKey(r) = <<hash_key, range_key>> THEN Updated(r, encoded) ELSE r :
        r \in table}

\* _update_source_table_item: the table after the call and the error raised
\* ("" when none)
_update_source_table_item(table, coll, hash_key, range_key, update_map) ==
    LET encoded == Encoded(coll, update_map)
    IN  IF DOMAIN update_map = {}
        THEN [table |-> table, raised |-> "ArgumentError"]
        ELSE IF \E k \in DOMAIN encoded : k \in IllegalUpdateKeys(coll)
        THEN [table |-> table, raised |-> "MetadataError"]
        ELSE IF DOMAIN encoded = {}
        THEN [table |-> table, raised |-> "IndexError"]
        ELSE IF ~ HasItem(table, hash_key, range_key)
        THEN [table |-> table, raised |-> "OperationError"]
        ELSE [table |-> UpdateItem(table, hash_key, range_key, encoded),
              raised |-> ""]

\* update_metadata_item(primary_key, source_version, update_map)
update_metadata_item(table, coll, url, source_version, update_map) ==
    _update_source_table_item(table, coll, _generate_hash_key(coll, url),
                              source_version, update_map)

\* available_parsers, default_parser_name ("" when it raises OperationError)
available_parsers(coll) == DOMAIN Parsers[coll]

default_parser_name(coll) ==
    IF available_parsers(coll) = {} THEN NoParser
    ELSE CHOOSE parser \in available_parsers(coll) : Parsers[coll][parser].default

\* _generate_s3_key with a parser name: the parser is a sub-prefix after
\* database and collection
_generate_parsed_s3_key(hash_key, range_key, parser_name) ==
    <<hash_key[1], hash_key[2], parser_name, range_key, hash_key[3]>>

\* the fields _validate_fields requires of a parsed file, among those modelled
RequiredOfParsed(coll) ==
    {"url", "retrieved_date", "feed_id", "md5", "content_start"}
        \cup (IF InSeq("last-modified", required_metadata_fields(coll))
              THEN {"last_modified"} ELSE {})

\* store(file, parsed_file=True, parser_name): store_parsed
store_parsed(table, bucket, coll, file, parser_name) ==
    LET metadata == file.metadata
        parser == IF parser_name # NoParser THEN parser_name
                  ELSE default_parser_name(coll)
    IN  IF "url" \notin DOMAIN metadata
        THEN Effect(table, bucket, Raised("MetadataError"))
        ELSE IF "file_key" \notin DOMAIN metadata
        THEN Effect(table, bucket, Raised("KeyError"))
        ELSE IF "source_version" \notin DOMAIN metadata
        THEN Effect(table, bucket, Raised("MetadataError"))
        ELSE IF parser = NoParser
        THEN Effect(table, bucket, Raised("OperationError"))
        ELSE IF parser \notin available_parsers(coll)
        THEN Effect(table, bucket, Raised("ArgumentError"))
        ELSE
        LET file_id == metadata.file_key
            file_version == metadata.source_version
            source == _get_source_table_item(table, file_id, file_version)
        IN  IF source = <<>>
            THEN Effect(table, bucket, Raised("OperationError"))
            ELSE
            LET update_map ==
                    [k \in {key \in DOMAIN metadata :
                                Differs(metadata, source[1], key)} |-> metadata[k]]
                uploaded ==
                    _s3_insert(bucket,
                               _generate_parsed_s3_key(file_id, file_version, parser),
                               file.content)
                updated == _update_source_table_item(table, coll, file_id,
                                                     file_version, update_map)
            IN  IF ~ (RequiredOfParsed(coll) \subseteq DOMAIN metadata)
                THEN Effect(table, bucket, Raised("MetadataError"))
                ELSE IF DOMAIN update_map = {}
                THEN Effect(table, uploaded,
                            Returned("SUCCESS", file_version, <<parser>>))
                ELSE IF updated.raised # ""
                THEN Effect(updated.table, uploaded, Raised(updated.raised))
                ELSE Effect(updated.table, uploaded,
                            Returned("SUCCESS", file_version, <<parser>>))

\* _s3_retrieve(metadata, parser_name): the parsed body, or no result
_s3_retrieve_parsed(bucket, item, parser_name) ==
    LET s3_key == _generate_parsed_s3_key(item.file_key, item.source_version,
                                          parser_name)
    IN  IF s3_key \in DOMAIN bucket THEN bucket[s3_key] ELSE NoSuchKey

\* a parsed retrieve that raises when the parsed object is missing
FetchedParsedOrRaise(bucket, coll, item, metadata_only, parser_name) ==
    LET parser == IF parser_name # NoParser THEN parser_name
                  ELSE default_parser_name(coll)
    IN  IF metadata_only
        THEN Returned("OK", item.source_version, NoResult)
        ELSE IF parser = NoParser THEN Raised("OperationError")
        ELSE IF parser \notin available_parsers(coll)
        THEN Raised("ArgumentError")
        ELSE LET body == _s3_retrieve_parsed(bucket, item, parser)
             IN  IF body = NoSuchKey
                 THEN Raised("OperationError")
                 ELSE Returned("OK", item.source_version, <<body>>)

\* what retrieve(parsed_file=True) returns for a source row
FetchedParsed(bucket, coll, item, metadata_only, parser_name) ==
    LET parser == IF parser_name # NoParser THEN parser_name
                  ELSE default_parser_name(coll)
    IN  IF metadata_only
        THEN Returned("OK", item.source_version, NoResult)
        ELSE IF parser = NoParser THEN Raised("OperationError")
        ELSE IF parser \notin available_parsers(coll)
        THEN Raised("ArgumentError")
        ELSE LET body == _s3_retrieve_parsed(bucket, item, parser)
             IN  IF body = NoSuchKey
                 THEN Returned("None", NoVersion, NoResult)
                 ELSE Returned("OK", item.source_version, <<body>>)

\* retrieve(primary_key, source_version, metadata_only, parsed_file=True,
\* parser_name)
retrieve_parsed(table, bucket, coll, url, source_version, metadata_only, parser_name) ==
    LET hash_key == _generate_hash_key(coll, url)
    IN  IF source_version = NoVersion
        THEN LET latest == LatestItem(table, hash_key)
             IN  IF latest = <<>>
                 THEN Returned("None", NoVersion, NoResult)
                 ELSE FetchedParsed(bucket, coll, latest[1], metadata_only,
                                    parser_name)
        ELSE LET metadata == _get_source_table_item(table, hash_key, source_version)
             IN  IF metadata = <<>>
                 THEN Raised("OperationError")
                 ELSE FetchedParsed(bucket, coll, metadata[1], metadata_only,
                                    parser_name)

-----------------------------------------------------------------------------
\* The client's calls.

RoomFor(table) == Cardinality(table) < MaxRows

Apply(effect) ==
    /\ sourceTable' = effect.table
    /\ sourceBucket' = effect.bucket
    /\ resp' = effect.resp

\* store(file)
Store(f, uid) ==
    /\ RoomFor(sourceTable)
    /\ Apply(store(sourceTable, sourceBucket, selected, f, FALSE, "none", uid))
    /\ UNCHANGED <<selected, pc, pending,
                 parsedBucket, registryTable, registryCache,
                   now, cachedAt, lastScan, held, cacheTtl, sesh>>

\* store(file, force_store=True)
ForceStore(f, uid) ==
    /\ RoomFor(sourceTable)
    /\ Apply(store(sourceTable, sourceBucket, selected, f, TRUE, "none", uid))
    /\ UNCHANGED <<selected, pc, pending,
                 parsedBucket, registryTable, registryCache,
                   now, cachedAt, lastScan, held, cacheTtl, sesh>>

\* store(file, compare_source=compare)
CompareStore(f, compare, uid) ==
    /\ RoomFor(sourceTable)
    /\ Apply(store(sourceTable, sourceBucket, selected, f, FALSE, compare, uid))
    /\ UNCHANGED <<selected, pc, pending,
                 parsedBucket, registryTable, registryCache,
                   now, cachedAt, lastScan, held, cacheTtl, sesh>>

\* the versions a caller may name: every version store can generate, and one
\* it cannot
RandomVersion == <<120>>

Versions ==
    {_generate_range_key(d, uid) : d \in RetrievedDates, uid \in Uids}

\* retrieve(primary_key, source_version)
Retrieve(url, source_version) ==
    /\ UNCHANGED <<selected, sourceTable, sourceBucket, pc, pending,
                 parsedBucket, registryTable, registryCache,
                   now, cachedAt, lastScan, held, cacheTtl, sesh>>
    /\ resp' = retrieve(sourceTable, sourceBucket, selected, url,
                        source_version, FALSE)

\* retrieve_versions(primary_key, latest_first)
RetrieveVersions(url, latest_first) ==
    /\ UNCHANGED <<selected, sourceTable, sourceBucket, pc, pending,
                 parsedBucket, registryTable, registryCache,
                   now, cachedAt, lastScan, held, cacheTtl, sesh>>
    /\ resp' = retrieve_versions(sourceTable, selected, url, latest_first)

-----------------------------------------------------------------------------

Init ==
    /\ selected \in Collections
    /\ sourceTable = {}
    /\ sourceBucket = <<>>
    /\ resp = Returned("init", NoVersion, NoResult)
    /\ pc = <<>>
    /\ pending = <<>>
    /\ parsedBucket = <<>>
    /\ registryTable = RegisteredCollections
    /\ registryCache = SelectedCached(selected)
    /\ now = 0
    /\ cachedAt = CachedAt(registryCache, now)
    /\ lastScan = None
    /\ held = None
    /\ cacheTtl = DEFAULT_CACHE_TTL
    /\ sesh = NoRole

Next ==
    \/ \E f \in Files, uid \in Uids : Store(f, uid)
    \/ \E f \in Files, uid \in Uids : ForceStore(f, uid)
    \/ \E f \in Files, compare \in {"equal", "differ"}, uid \in Uids :
          CompareStore(f, compare, uid)
    \/ \E url \in PKeys, v \in Versions \cup {NoVersion, RandomVersion} :
          Retrieve(url, v)
    \/ \E url \in PKeys, latest_first \in BOOLEAN :
          RetrieveVersions(url, latest_first)

Spec == Init /\ [][Next]_vars

-----------------------------------------------------------------------------
\* Properties of store.

\* the item stored under a version of a hash key, as a sequence
ItemOf(table, hash_key, range_key) ==
    _get_source_table_item(table, hash_key, range_key)

UniqueKeys(table) ==
    \A r1, r2 \in table : ItemKey(r1) = ItemKey(r2) => r1 = r2

\* C1: store(f) twice in a row, without force_store and without a compare
\* callback: when the first call returns SUCCESS with version v, the second
\* returns ALREADY_EXIST with the same v and adds no row.
C1_StoreTwice ==
    [][\A f \in Files, uid \in Uids :
        (Store(f, uid) /\ resp'.status = "SUCCESS") =>
            \A uid2 \in Uids :
                LET again == store(sourceTable', sourceBucket', selected',
                                   f, FALSE, "none", uid2)
                IN  /\ again.resp.status = "ALREADY_EXIST"
                    /\ again.resp.source_version = resp'.source_version
                    /\ again.table = sourceTable']_vars

\* C2: every store(f, force_store=True) returns SUCCESS with a
\* source_version that no stored version of the primary key has, and adds
\* exactly one row.
C2_ForcedStoreIsNew ==
    [][\A f \in Files, uid \in Uids :
        ForceStore(f, uid) =>
            /\ resp'.status = "SUCCESS"
            /\ ~ HasItem(sourceTable, _generate_hash_key(selected, f.url),
                         resp'.source_version)
            /\ sourceTable \subseteq sourceTable'
            /\ Cardinality(sourceTable') = Cardinality(sourceTable) + 1]_vars

\* C3: the source table holds at most one record per (file_key,
\* source_version), and a store whose insert meets a pair that is already
\* present leaves every existing record as it was.
C3_UniqueNeverOverwritten ==
    [][resp'.status \in {"SUCCESS", ConditionalCheckFailed} =>
        /\ UniqueKeys(sourceTable')
        /\ \A r \in sourceTable : r \in sourceTable']_vars

\* C3 witness: an insert of a pair already present was attempted and
\* rejected, and the record of that pair is in the table.
C3_Witness ==
    /\ resp.status = ConditionalCheckFailed
    /\ sourceTable # {}

-----------------------------------------------------------------------------
\* Two clients store concurrently with force_store: each runs store_source,
\* and the other client's requests may fall between its own.

Writers == {"w1", "w2"}

\* metadata is built: hash key, range key, collection id, md5
RaceBegin(w, f, uid) ==
    /\ pc[w] = "idle"
    /\ pending' = [pending EXCEPT ![w] =
                      <<[metadata |-> SourceMetadata(selected, f, uid),
                         content |-> f.content]>>]
    /\ pc' = [pc EXCEPT ![w] = "upload"]
    /\ UNCHANGED <<selected, sourceTable, sourceBucket, resp,
                 parsedBucket, registryTable, registryCache,
                   now, cachedAt, lastScan, held, cacheTtl, sesh>>

\* self._s3_insert(file)
RaceUpload(w) ==
    /\ pc[w] = "upload"
    /\ sourceBucket' = _s3_insert(sourceBucket, pending[w][1].metadata.s3_key,
                                  pending[w][1].content)
    /\ pc' = [pc EXCEPT ![w] = "insert"]
    /\ UNCHANGED <<selected, sourceTable, resp, pending,
                 parsedBucket, registryTable, registryCache,
                   now, cachedAt, lastScan, held, cacheTtl, sesh>>

\* self._insert_source_table_item(metadata), and store's return
RaceInsert(w) ==
    /\ pc[w] = "insert"
    /\ LET metadata == pending[w][1].metadata
           inserted == _insert_source_table_item(sourceTable, metadata)
       IN  /\ sourceTable' = inserted.table
           /\ resp' = [resp EXCEPT ![w] =
                          IF inserted.raised
                          THEN Raised(ConditionalCheckFailed)
                          ELSE Returned("SUCCESS", metadata.source_version,
                                        NoResult)]
    /\ pc' = [pc EXCEPT ![w] = "done"]
    /\ UNCHANGED <<selected, sourceBucket, pending,
                 parsedBucket, registryTable, registryCache,
                   now, cachedAt, lastScan, held, cacheTtl, sesh>>

RaceInit ==
    /\ selected \in Collections
    /\ sourceTable = {}
    /\ sourceBucket = <<>>
    /\ resp = [w \in Writers |-> Returned("init", NoVersion, NoResult)]
    /\ pc = [w \in Writers |-> "idle"]
    /\ pending = [w \in Writers |-> <<>>]
    /\ parsedBucket = <<>>
    /\ registryTable = RegisteredCollections
    /\ registryCache = SelectedCached(selected)
    /\ now = 0
    /\ cachedAt = CachedAt(registryCache, now)
    /\ lastScan = None
    /\ held = None
    /\ cacheTtl = DEFAULT_CACHE_TTL
    /\ sesh = NoRole

RaceNext ==
    \/ \E w \in Writers, f \in Files, uid \in Uids : RaceBegin(w, f, uid)
    \/ \E w \in Writers : RaceUpload(w)
    \/ \E w \in Writers : RaceInsert(w)

SpecRace == RaceInit /\ [][RaceNext]_vars

\* both writers have finished a store of the same (file_key, source_version)
RacedSameKey(w1, w2) ==
    /\ w1 # w2
    /\ pc[w1] = "done" /\ pc[w2] = "done"
    /\ ItemKey(pending[w1][1].metadata) = ItemKey(pending[w2][1].metadata)

\* C4: two writers insert the same (file_key, source_version) concurrently:
\* exactly one insert succeeds, the other fails, and the stored record is
\* the winner's.
C4_ExactlyOneWins ==
    \A w1, w2 \in Writers :
        RacedSameKey(w1, w2) =>
            /\ {resp[w1].status, resp[w2].status} = {"SUCCESS", ConditionalCheckFailed}
            /\ \A w \in {w1, w2} :
                  resp[w].status = "SUCCESS" =>
                      ItemOf(sourceTable, pending[w][1].metadata.file_key,
                             pending[w][1].metadata.source_version)
                          = <<pending[w][1].metadata>>

\* C4 witness: the two writers raced on one key with different files.
C4_Witness ==
    \E w1, w2 \in Writers :
        /\ RacedSameKey(w1, w2)
        /\ pending[w1][1].metadata # pending[w2][1].metadata

-----------------------------------------------------------------------------
\* Properties of store and retrieve, continued.

\* the signals of the warehouse's own contract: STATUS.ALREADY_EXIST and
\* the three classified errors
\* the (file_key, source_version) generated for the file is already stored
Present(f, uid) ==
    ~ ConditionHolds(sourceTable, SourceMetadata(selected, f, uid))

\* C5: a store whose conditional put fails on a present (file_key,
\* source_version) reports a distinct already-exists signal to the caller,
\* not a generic error: in every reachable state a forced store raises
\* ConditionalCheckFailed exactly when the generated pair is present and then
\* leaves the table alone, a store with an unequal compare of a present pair
\* raises it too, and no retrieve raises it.
C5_DuplicateIsClassified ==
    /\ \A f \in Files, uid \in Uids :
          LET forced == store(sourceTable, sourceBucket, selected, f, TRUE,
                              "none", uid)
          IN  IF Present(f, uid)
              THEN /\ forced.resp.status = ConditionalCheckFailed
                   /\ forced.table = sourceTable
                   /\ store(sourceTable, sourceBucket, selected, f, FALSE,
                            "differ", uid).resp.status = ConditionalCheckFailed
              ELSE forced.resp.status # ConditionalCheckFailed
    /\ \A url \in PKeys, v \in Versions \cup {NoVersion, RandomVersion} :
          retrieve(sourceTable, sourceBucket, selected, url, v,
                   FALSE).status # ConditionalCheckFailed

\* C5 witness: a store has raised the duplicate signal on the only stored
\* version.
C5_Witness ==
    /\ resp.status = ConditionalCheckFailed
    /\ Cardinality(sourceTable) = 1

\* some stored version of the file's primary key has its body and its
\* last-modified
StoredBefore(table, coll, f) ==
    \E r \in VersionsOf(table, _generate_hash_key(coll, f.url)) :
        r.md5 = get_md5(f.content) /\ r.last_modified = f.last_modified

\* the file was retrieved before every stored version of its primary key and
\* shares neither body nor last-modified with any of them
EarlierNeverStored(table, coll, f) ==
    \A r \in VersionsOf(table, _generate_hash_key(coll, f.url)) :
        /\ f.retrieved_date < r.retrieved_date
        /\ r.md5 # get_md5(f.content)
        /\ r.last_modified # f.last_modified

\* C6: a plain store of a file whose body and last-modified equal those of
\* any version stored earlier returns ALREADY_EXIST, also when a newer
\* version was stored since; a plain store of an earlier file that was never
\* stored returns SUCCESS.
C6_PreviousReleases ==
    [][\A f \in Files, uid \in Uids :
        Store(f, uid) =>
            /\ StoredBefore(sourceTable, selected, f)
                  => resp'.status = "ALREADY_EXIST"
            /\ EarlierNeverStored(sourceTable, selected, f)
                  => resp'.status = "SUCCESS"]_vars

\* one row more, the old rows kept
AddsOneRow ==
    /\ sourceTable \subseteq sourceTable'
    /\ Cardinality(sourceTable') = Cardinality(sourceTable) + 1

\* C7: a plain store returns ALREADY_EXIST if a latest stored version exists
\* and its md5 equals the file's, or last-modified is required and equal; in
\* every other case it stores a new version and returns SUCCESS.
C7_PlainStoreDecision ==
    [][\A f \in Files, uid \in Uids :
        Store(f, uid) =>
            LET latest == LatestItem(sourceTable,
                                     _generate_hash_key(selected, f.url))
            IN  IF /\ latest # <<>>
                   /\ \/ latest[1].md5 = get_md5(f.content)
                      \/ /\ selected = "test_last_modified"
                         /\ latest[1].last_modified = f.last_modified
                THEN resp'.status = "ALREADY_EXIST"
                ELSE resp'.status = "SUCCESS" /\ AddsOneRow]_vars

\* C8: with a compare callback, store returns ALREADY_EXIST with the latest
\* version and adds no row exactly when a latest version exists and the
\* callback returns true; otherwise it stores a new version.
C8_CompareStoreDecision ==
    [][\A f \in Files, compare \in {"equal", "differ"}, uid \in Uids :
        CompareStore(f, compare, uid) =>
            LET latest == LatestItem(sourceTable,
                                     _generate_hash_key(selected, f.url))
            IN  IF latest # <<>> /\ compare = "equal"
                THEN /\ resp'.status = "ALREADY_EXIST"
                     /\ resp'.source_version = latest[1].source_version
                     /\ sourceTable' = sourceTable
                ELSE resp'.status = "SUCCESS" /\ AddsOneRow]_vars

\* the retrieved_date of the stored version
DateOf(table, hash_key, range_key) ==
    ItemOf(table, hash_key, range_key)[1].retrieved_date

\* C9: retrieve(primary_key) returns the version with the greatest
\* retrieved_date; retrieve_versions yields every version, in non-increasing
\* retrieved_date order with latest_first and non-decreasing order without.
C9_OrderedByRetrievedDate ==
    [][\A url \in PKeys :
        LET hash_key == _generate_hash_key(selected, url)
            stored == VersionsOf(sourceTable, hash_key)
        IN  /\ (Retrieve(url, NoVersion) /\ stored # {}) =>
                  \A r \in stored :
                      r.retrieved_date
                          <= DateOf(sourceTable, hash_key, resp'.source_version)
            /\ \A latest_first \in BOOLEAN :
                  RetrieveVersions(url, latest_first) =>
                      /\ {resp'.result[i] : i \in 1..Len(resp'.result)}
                            = {r.source_version : r \in stored}
                      /\ \A i, j \in 1..Len(resp'.result) :
                            i < j =>
                                LET di == DateOf(sourceTable, hash_key, resp'.result[i])
                                    dj == DateOf(sourceTable, hash_key, resp'.result[j])
                                IN  IF latest_first THEN di >= dj ELSE di <= dj]_vars

\* C10: retrieve with a source_version that has no source row raises
\* OperationError; retrieve without a version for a primary key that has no
\* versions returns None.  Checked for every primary key and version in every
\* reachable state of the stores.
C10_MissingVersionRaises ==
    \A url \in PKeys, metadata_only \in BOOLEAN :
        LET hash_key == _generate_hash_key(selected, url)
        IN  /\ \A v \in Versions \cup {RandomVersion} :
                  ~ HasItem(sourceTable, hash_key, v) =>
                      retrieve(sourceTable, sourceBucket, selected, url, v,
                               metadata_only).status = "OperationError"
            /\ VersionsOf(sourceTable, hash_key) = {} =>
                  retrieve(sourceTable, sourceBucket, selected, url, NoVersion,
                           metadata_only).status = "None"

\* C10 witness: a retrieve of a version that was never stored has raised
\* while other versions are stored.
C10_Witness ==
    /\ resp.status = "OperationError"
    /\ sourceTable # {}

-----------------------------------------------------------------------------
\* Parsed files and metadata updates: a client stores source files, stores
\* parsed files for them, reads them back and updates source rows.

\* the call that was made, with its outcome
Call(name, outcome) ==
    [call |-> name, status |-> outcome.status,
     source_version |-> outcome.source_version, result |-> outcome.result]

\* retrieve(primary_key, source_version, metadata_only=True): the decoded row,
\* as the result of the call
retrieve_metadata(table, coll, url, source_version) ==
    LET hash_key == _generate_hash_key(coll, url)
        found == IF source_version = NoVersion
                 THEN LatestItem(table, hash_key)
                 ELSE _get_source_table_item(table, hash_key, source_version)
    IN  IF found # <<>>
        THEN Returned("OK", found[1].source_version, found)
        ELSE IF source_version = NoVersion
        THEN Returned("None", NoVersion, NoResult)
        ELSE Raised("OperationError")

EmptyMap == [k \in {} |-> 0]

\* a dict without one key
Without(metadata, key) ==
    [k \in DOMAIN metadata \ {key} |-> metadata[k]]

\* the source files of the parsed-file runs: two releases of "u1"
ParsedSourceFiles ==
    {f \in Files : f.url = "u1" /\ f.content = "A" /\ f.last_modified = 1}

ParsedUids == {Uid(97)}

\* the primary key the parsed files are read back by
ParsedPKeys == {f.url : f \in ParsedSourceFiles}

ParsedContents == {"P", "Q"}

\* the parser names a caller passes: none (the default parser), the two
\* registered for "test_collection", and one that is not registered
ParserNames == {NoParser, "parser_1", "parser_2", "invalid_parser"}

\* how a parsed file's metadata is made from the metadata of a source file:
\* content_start set or left out, an int-valued row_count added, the primary
\* key changed, the source version left out; "other_feed" is a parsed file
\* that names another collection in feed_id
ParsedEdits ==
    {"no_content_start", "whole_second", "now", "row_count", "other_url",
     "no_source_version"}

ParsedMetadata(row, edit) ==
    LET started == Updated(row, [content_start |-> <<1, 0>>])
    IN  CASE edit = "no_content_start" -> row
          [] edit = "whole_second" -> started
          [] edit = "now" -> Updated(row, [content_start |-> <<2, 500000>>])
          [] edit = "row_count" -> Updated(started, [row_count |-> 7])
          [] edit = "other_url" -> Updated(started, [url |-> "u2"])
          [] edit = "no_source_version" -> Without(started, "source_version")
          [] edit = "other_feed" ->
                Updated(started, [feed_id |-> <<Database, "_", "other">>])

\* the update maps a caller passes to update_metadata_item
UpdateMaps ==
    {EmptyMap,
     [content_start |-> <<1, 0>>],
     [content_start |-> <<2, 500000>>],
     [row_count |-> 7],
     [content_start |-> <<1, 0>>, row_count |-> 7],
     [url |-> "u2"],
     [retrieved_date |-> 12],
     [content_start |-> <<1, 0>>, retrieved_date |-> 12]}

ParsedVersions ==
    {_generate_range_key(f.retrieved_date, uid) :
        f \in ParsedSourceFiles, uid \in ParsedUids} \cup {RandomVersion}

\* store(file, force_store=True) of a source file
StoreSource(f, uid) ==
    LET effect == store(sourceTable, sourceBucket, selected, f, TRUE, "none", uid)
    IN  /\ RoomFor(sourceTable)
        /\ sourceTable' = effect.table
        /\ sourceBucket' = effect.bucket
        /\ resp' = Call("store", effect.resp)
        /\ UNCHANGED <<selected, pc, pending, parsedBucket, registryTable, registryCache,
                       now, cachedAt, lastScan, held, cacheTtl, sesh>>

\* store(file, parsed_file=True, parser_name=parser_name) of a parsed file
\* made for the source file f stored as version (f.retrieved_date, uid)
StoreParsed(f, uid, edit, content, parser_name) ==
    LET metadata == ParsedMetadata(SourceMetadata(selected, f, uid), edit)
        effect == store_parsed(sourceTable, parsedBucket, selected,
                               [metadata |-> metadata, content |-> content],
                               parser_name)
    IN  /\ sourceTable' = effect.table
        /\ parsedBucket' = effect.bucket
        /\ resp' = Call("store_parsed", effect.resp)
        /\ UNCHANGED <<selected, sourceBucket, pc, pending, registryTable, registryCache,
                       now, cachedAt, lastScan, held, cacheTtl, sesh>>

\* retrieve(primary_key, source_version, parsed_file=True, parser_name)
RetrieveParsed(url, source_version, metadata_only, parser_name) ==
    /\ resp' = Call("retrieve_parsed",
                    retrieve_parsed(sourceTable, parsedBucket, selected, url,
                                    source_version, metadata_only, parser_name))
    /\ UNCHANGED <<selected, sourceTable, sourceBucket, pc, pending,
                   parsedBucket, registryTable, registryCache,
                   now, cachedAt, lastScan, held, cacheTtl, sesh>>

\* update_metadata_item(primary_key, source_version, update_map)
UpdateMetadataItem(url, source_version, update_map) ==
    LET updated == update_metadata_item(sourceTable, selected, url,
                                        source_version, update_map)
    IN  /\ sourceTable' = updated.table
        /\ resp' = Call("update_metadata_item",
                        IF updated.raised = ""
                        THEN Returned("OK", source_version, NoResult)
                        ELSE Raised(updated.raised))
        /\ UNCHANGED <<selected, sourceBucket, pc, pending, parsedBucket,
                       registryTable, registryCache,
                       now, cachedAt, lastScan, held, cacheTtl, sesh>>

InitParsed ==
    /\ selected \in Collections
    /\ sourceTable = {}
    /\ sourceBucket = <<>>
    /\ resp = Call("init", Returned("init", NoVersion, NoResult))
    /\ pc = <<>>
    /\ pending = <<>>
    /\ parsedBucket = <<>>
    /\ registryTable = RegisteredCollections
    /\ registryCache = SelectedCached(selected)
    /\ now = 0
    /\ cachedAt = CachedAt(registryCache, now)
    /\ lastScan = None
    /\ held = None
    /\ cacheTtl = DEFAULT_CACHE_TTL
    /\ sesh = NoRole

NextParsed ==
    \/ \E f \in ParsedSourceFiles, uid \in ParsedUids : StoreSource(f, uid)
    \/ \E f \in ParsedSourceFiles, uid \in ParsedUids, edit \in ParsedEdits,
          content \in ParsedContents, parser_name \in ParserNames :
            StoreParsed(f, uid, edit, content, parser_name)
    \/ \E url \in ParsedPKeys, v \in ParsedVersions \cup {NoVersion},
          metadata_only \in BOOLEAN, parser_name \in ParserNames :
            RetrieveParsed(url, v, metadata_only, parser_name)
    \/ \E url \in PKeys, v \in ParsedVersions, update_map \in UpdateMaps :
          UpdateMetadataItem(url, v, update_map)

SpecParsed == InitParsed /\ [][NextParsed]_vars

-----------------------------------------------------------------------------
\* Properties of parsed files.

\* the parser names that name a registered parser: each registered name, and
\* no name when the collection has a default parser
RegisteredNames(coll) ==
    available_parsers(coll)
        \cup (IF default_parser_name(coll) # NoParser THEN {NoParser} ELSE {})

\* the parser a name stands for
ParserOf(coll, parser_name) ==
    IF parser_name # NoParser THEN parser_name ELSE default_parser_name(coll)

HasParsed(bucket, item, parser) ==
    _generate_parsed_s3_key(item.file_key, item.source_version, parser)
        \in DOMAIN bucket

\* C11: when a source row exists but no parsed file is stored for the
\* requested (or default) parser, retrieve with parsed_file=true returns None
\* and raises no error, with an explicit source_version and without one.
C11_MissingParsedIsNone ==
    \A url \in ParsedPKeys, parser_name \in RegisteredNames(selected) :
        LET hash_key == _generate_hash_key(selected, url)
            latest == LatestItem(sourceTable, hash_key)
        IN  /\ \A r \in VersionsOf(sourceTable, hash_key) :
                  ~ HasParsed(parsedBucket, r, ParserOf(selected, parser_name)) =>
                      retrieve_parsed(sourceTable, parsedBucket, selected, url,
                                      r.source_version, FALSE, parser_name)
                          = Returned("None", NoVersion, NoResult)
            /\ (/\ latest # <<>>
                /\ ~ HasParsed(parsedBucket, latest[1],
                               ParserOf(selected, parser_name))) =>
                  retrieve_parsed(sourceTable, parsedBucket, selected, url,
                                  NoVersion, FALSE, parser_name)
                      = Returned("None", NoVersion, NoResult)

\* C11 witness: a parsed retrieve of a stored source version has returned
\* None while a parsed file of another parser or version is stored.
C11_Witness ==
    /\ resp.call = "retrieve_parsed"
    /\ resp.status = "None"
    /\ sourceTable # {}
    /\ DOMAIN parsedBucket # {}

\* the errors a call raises
Errors == {"ArgumentError", "MetadataError", "OperationError", "KeyError",
           "IndexError", ConditionalCheckFailed}

\* the source row a parsed object belongs to is stored
SourceOfParsed(table, s3_key) ==
    HasItem(table, <<s3_key[1], s3_key[2], s3_key[5]>>, s3_key[4])

\* C12: each object of the parsed bucket has a source record with the same
\* (file_key, source_version), and a parsed store whose source row does not
\* exist fails and uploads nothing.
C12_ParsedHasSource ==
    /\ \A s3_key \in DOMAIN parsedBucket : SourceOfParsed(sourceTable, s3_key)
    /\ \A f \in ParsedSourceFiles, uid \in ParsedUids, edit \in ParsedEdits,
          content \in ParsedContents, parser_name \in ParserNames :
            LET row == SourceMetadata(selected, f, uid)
                effect == store_parsed(sourceTable, parsedBucket, selected,
                                       [metadata |-> ParsedMetadata(row, edit),
                                        content |-> content],
                                       parser_name)
            IN  ~ HasItem(sourceTable, row.file_key, row.source_version) =>
                    /\ effect.resp.status \in Errors
                    /\ effect.bucket = parsedBucket
                    /\ effect.table = sourceTable

\* C12 witness: a parsed store for a version that is not stored has raised
\* while a parsed file of the stored version is in the bucket.
C12_Witness ==
    /\ resp.call = "store_parsed"
    /\ resp.status = "OperationError"
    /\ selected = "test_collection"
    /\ Cardinality(sourceTable) = 1
    /\ DOMAIN parsedBucket # {}

\* the parser names that are not registered for the collection
UnregisteredNames(coll) ==
    {parser_name \in ParserNames \ {NoParser} :
        parser_name \notin available_parsers(coll)}

\* C13: store and retrieve with parsed_file=true and a parser_name that is
\* not registered for the selected collection raise ArgumentError, retrieve
\* with an explicit source_version and without one, and store nothing.
C13_UnknownParserRaises ==
    \A parser_name \in UnregisteredNames(selected) :
        /\ \A url \in ParsedPKeys, v \in ParsedVersions \cup {NoVersion} :
              retrieve_parsed(sourceTable, parsedBucket, selected, url, v,
                              FALSE, parser_name).status = "ArgumentError"
        /\ \A f \in ParsedSourceFiles, uid \in ParsedUids,
              content \in ParsedContents :
                LET row == SourceMetadata(selected, f, uid)
                    effect == store_parsed(sourceTable, parsedBucket, selected,
                                           [metadata |->
                                                ParsedMetadata(row, "whole_second"),
                                            content |-> content],
                                           parser_name)
                IN  /\ effect.resp.status = "ArgumentError"
                    /\ effect.bucket = parsedBucket
                    /\ effect.table = sourceTable

\* C14: there is at most one parsed file per (parser, file_key,
\* source_version): a successful parsed store puts its body under the key
\* of its parser and source version, replacing the body stored there before,
\* a retrieve for that parser and version then returns the body just stored,
\* and the parsed files of other parsers and versions stay as they were.
C14_OneParsedPerParserAndVersion ==
    \A f \in ParsedSourceFiles, uid \in ParsedUids, edit \in ParsedEdits,
       content \in ParsedContents, parser_name \in ParserNames :
        LET row == SourceMetadata(selected, f, uid)
            effect == store_parsed(sourceTable, parsedBucket, selected,
                                   [metadata |-> ParsedMetadata(row, edit),
                                    content |-> content],
                                   parser_name)
            s3_key == _generate_parsed_s3_key(row.file_key, row.source_version,
                                              ParserOf(selected, parser_name))
        IN  effect.resp.status = "SUCCESS" =>
                /\ DOMAIN effect.bucket = DOMAIN parsedBucket \cup {s3_key}
                /\ effect.bucket[s3_key] = content
                /\ \A other \in DOMAIN parsedBucket \ {s3_key} :
                      effect.bucket[other] = parsedBucket[other]
                /\ retrieve_parsed(effect.table, effect.bucket, selected, f.url,
                                   row.source_version, FALSE, parser_name)
                      = Returned("OK", row.source_version, <<content>>)

\* C14 witness: after a parsed store, one source version has parsed files of
\* both parsers with different bodies, and the other version has one too.
C14_Witness ==
    /\ resp.call = "store_parsed"
    /\ resp.status = "SUCCESS"
    /\ Cardinality(DOMAIN parsedBucket) >= 3
    /\ \E k1, k2 \in DOMAIN parsedBucket :
          /\ k1[4] = k2[4]
          /\ k1[3] # k2[3]
          /\ parsedBucket[k1] # parsedBucket[k2]

\* the fields of two versions of a row agree outside a set of keys
SameOutside(before, after, keys) ==
    /\ DOMAIN after \ keys = DOMAIN before \ keys
    /\ \A k \in DOMAIN before \ keys : after[k] = before[k]

\* the rows other than the one of the key are the same in both tables
OtherRowsSame(before, after, hash_key, range_key) ==
    {r \in after : ItemKey(r) # <<hash_key, range_key>>}
        = {r \in before : ItemKey(r) # <<hash_key, range_key>>}

-----------------------------------------------------------------------------
\* Properties of update_metadata_item.

\* the update map names a primary-key field of the collection or
\* retrieved_date
TouchesProtected(coll, update_map) ==
    \/ "retrieved_date" \in DOMAIN update_map
    \/ \E i \in 1..Len(Registry[coll].primary_key_fields) :
          Registry[coll].primary_key_fields[i] \in DOMAIN update_map

\* C16: update_metadata_item rejects with MetadataError every update map
\* that names a primary-key field or retrieved_date, whether or not the row
\* exists and whatever else the map holds, and the rejected update leaves
\* the table as it was.
C16_ProtectedFieldsRejected ==
    \A url \in PKeys, v \in ParsedVersions, update_map \in UpdateMaps :
        LET updated == update_metadata_item(sourceTable, selected, url, v,
                                            update_map)
        IN  TouchesProtected(selected, update_map) =>
                /\ updated.raised = "MetadataError"
                /\ updated.table = sourceTable

\* C16 witness: an update has been rejected with MetadataError while both
\* source versions are stored.
C16_Witness ==
    /\ resp.call = "update_metadata_item"
    /\ resp.status = "MetadataError"
    /\ Cardinality(sourceTable) = 2

\* an update map update_metadata_item accepts: not empty, and naming no
\* protected field
LegalUpdate(coll, update_map) ==
    DOMAIN update_map # {} /\ ~ TouchesProtected(coll, update_map)

\* C17: update_metadata_item on a (file_key, source_version) that does not
\* exist raises OperationError and creates no row; on an existing row a
\* legal update makes retrieve return the new value for every updated key.
C17_UpdateNeedsRowAndIsRead ==
    \A url \in PKeys, v \in ParsedVersions, update_map \in UpdateMaps :
        LET hash_key == _generate_hash_key(selected, url)
            updated == update_metadata_item(sourceTable, selected, url, v,
                                            update_map)
            read == retrieve_metadata(updated.table, selected, url, v)
        IN  LegalUpdate(selected, update_map) =>
                IF HasItem(sourceTable, hash_key, v)
                THEN /\ updated.raised = ""
                     /\ read.status = "OK"
                     /\ \A k \in DOMAIN update_map :
                           /\ k \in DOMAIN read.result[1]
                           /\ read.result[1][k] = update_map[k]
                ELSE /\ updated.raised = "OperationError"
                     /\ updated.table = sourceTable

-----------------------------------------------------------------------------
\* The source registry: update_source_registry on an empty registry table.

\* the collection the registry runs register and update
RegistryCollections == {"load"}

RegistryKeys == {"key1", "key2", "key3"}
RegistryTypes == {"INT", "FLOAT"}

\* primary_key_fields as callers pass it: not given, the empty tuple, one
\* field, two fields
PrimaryKeyArgs ==
    {None, Some(<<>>), Some(<<"key1">>), Some(<<"key1", "key3">>)}

\* required_metadata_fields as callers pass it, an Iterable[str]: not given,
\* or a tuple or a list of field names
RequiredArgs ==
    {None}
    \cup {Some([kind |-> kind, items |-> items]) :
            kind \in {"tuple"},
            items \in {<<>>, <<"key2">>, <<"key3">>, <<"key2", "key3">>}}
    \cup {Some([kind |-> "list", items |-> <<"key2">>])}

\* metadata_type_map as callers pass it: not given, or a dict of types
TypeMapArgs ==
    {None} \cup {Some(m) : m \in UNION {[S -> RegistryTypes] :
                                           S \in SUBSET RegistryKeys}}

\* set(sequence)
Items(seq) == {seq[i] : i \in 1..Len(seq)}

\* the table or the cache with the entry of the collection put
PutEntry(entries, coll, entry) ==
    [c \in DOMAIN entries \cup {coll} |->
        IF c = coll THEN entry ELSE entries[c]]

\* update_source_registry(database, collection, primary_key_fields,
\* required_metadata_fields, metadata_type_map): the registry table and the
\* cache after the call, and the error raised ("" when none)
update_source_registry(table, cache, coll, primary_key_fields, required_fields, metadata_type_map) ==
    LET exists == coll \in DOMAIN table
        \* the entry read with use_cached=False, or the new entry
        start == IF exists
                 THEN [table[coll] EXCEPT
                         !.metadata_type_map =
                             IF metadata_type_map # None
                             THEN Updated(@, metadata_type_map[1]) ELSE @]
                 ELSE [primary_key_fields |-> primary_key_fields[1],
                       required_metadata_fields |-> <<>>,
                       metadata_type_map |-> metadata_type_map[1],
                       parsers |-> <<>>]
        entry == IF required_fields # None
                 THEN [start EXCEPT !.required_metadata_fields =
                                        required_fields[1].items]
                 ELSE start
        \* _get_registry_entry caches the entry it has read
        read == IF exists THEN PutEntry(cache, coll, table[coll]) ELSE cache
    IN  IF ~ exists /\ (primary_key_fields = None \/ metadata_type_map = None)
        THEN [table |-> table, cache |-> read, raised |-> "ArgumentError"]
        ELSE IF /\ exists
                /\ primary_key_fields # None
                /\ primary_key_fields[1] # <<>>
                /\ primary_key_fields[1] # table[coll].primary_key_fields
        THEN [table |-> table, cache |-> read, raised |-> "ArgumentError"]
        \* pkeys + rkeys: a tuple and a list do not concatenate
        ELSE IF /\ required_fields # None
                /\ required_fields[1].kind # "tuple"
        THEN [table |-> table, cache |-> read, raised |-> "TypeError"]
        ELSE IF ~ (Items(entry.primary_key_fields)
                       \cup Items(entry.required_metadata_fields)
                           \subseteq DOMAIN entry.metadata_type_map)
        THEN [table |-> table, cache |-> read, raised |-> "ArgumentError"]
        ELSE [table |-> PutEntry(table, coll, entry),
              cache |-> PutEntry(read, coll, entry), raised |-> ""]

\* _update_cache stamps the entry it stores with the time of the call: the
\* entry of the collection is stored whenever the call has read or written it
Stamped(times, cache, coll, t) ==
    IF coll \in DOMAIN cache THEN PutEntry(times, coll, t) ELSE times

\* update_source_registry(...)
UpdateSourceRegistry(coll, primary_key_fields, required_fields, metadata_type_map) ==
    LET updated == update_source_registry(registryTable, registryCache, coll,
                                          primary_key_fields,
                                          required_fields,
                                          metadata_type_map)
    IN  /\ registryTable' = updated.table
        /\ registryCache' = updated.cache
        /\ cachedAt' = Stamped(cachedAt, updated.cache, coll, now)
        /\ resp' = Call("update_source_registry",
                        IF updated.raised = ""
                        THEN Returned("OK", NoVersion, NoResult)
                        ELSE Raised(updated.raised))
        /\ UNCHANGED <<selected, sourceTable, sourceBucket, pc, pending,
                       parsedBucket, now, lastScan, held,
                       cacheTtl, sesh>>

\* a client without a selected collection, and an empty registry
NoSelection == ""

RegistryInit ==
    /\ selected = NoSelection
    /\ sourceTable = {}
    /\ sourceBucket = <<>>
    /\ resp = Call("init", Returned("init", NoVersion, NoResult))
    /\ pc = <<>>
    /\ pending = <<>>
    /\ parsedBucket = <<>>
    /\ registryTable = <<>>
    /\ registryCache = <<>>
    /\ now = 0
    /\ cachedAt = CachedAt(registryCache, now)
    /\ lastScan = None
    /\ held = None
    /\ cacheTtl = DEFAULT_CACHE_TTL
    /\ sesh = NoRole

RegistryNext ==
    \E coll \in RegistryCollections, primary_key_fields \in PrimaryKeyArgs,
       required_fields \in RequiredArgs,
       metadata_type_map \in TypeMapArgs :
        UpdateSourceRegistry(coll, primary_key_fields, required_fields,
                             metadata_type_map)

SpecRegistry == RegistryInit /\ [][RegistryNext]_vars

-----------------------------------------------------------------------------
\* Properties of the source registry.

\* C18: primary-key fields are write-once per collection: every
\* update_source_registry call on a registered collection leaves its
\* primary_key_fields as they were given at creation, and a call supplying
\* a different tuple is rejected with ArgumentError and leaves the registry
\* entry unchanged.
C18_PrimaryKeyWriteOnce ==
    \A coll \in RegistryCollections, primary_key_fields \in PrimaryKeyArgs,
       required_fields \in RequiredArgs, metadata_type_map \in TypeMapArgs :
        LET updated == update_source_registry(registryTable, registryCache,
                                              coll, primary_key_fields,
                                              required_fields,
                                              metadata_type_map)
        IN  coll \in DOMAIN registryTable =>
                /\ updated.table[coll].primary_key_fields
                      = registryTable[coll].primary_key_fields
                /\ (/\ primary_key_fields # None
                    /\ primary_key_fields[1]
                          # registryTable[coll].primary_key_fields) =>
                      /\ updated.raised = "ArgumentError"
                      /\ updated.table = registryTable

\* C19: metadata_type_map is append-or-correct, never remove: every
\* successful update_source_registry call of the client on a registered
\* collection keeps every field name of the type map, adds the new keys of
\* the supplied map and gives its existing keys the supplied type; without
\* a supplied map the type map stays as it is.
C19_TypeMapAppendOrCorrect ==
    \A coll \in RegistryCollections, primary_key_fields \in PrimaryKeyArgs,
       required_fields \in RequiredArgs, metadata_type_map \in TypeMapArgs :
        LET updated == update_source_registry(registryTable, registryCache,
                                              coll, primary_key_fields,
                                              required_fields,
                                              metadata_type_map)
        IN  (coll \in DOMAIN registryTable /\ updated.raised = "") =>
                LET old == registryTable[coll].metadata_type_map
                    new == updated.table[coll].metadata_type_map
                    given == IF metadata_type_map = None THEN <<>>
                             ELSE metadata_type_map[1]
                IN  /\ DOMAIN new = DOMAIN old \cup DOMAIN given
                    /\ \A k \in DOMAIN given : new[k] = given[k]
                    /\ \A k \in DOMAIN old \ DOMAIN given : new[k] = old[k]

\* C19 witness: after a successful update the type map holds all three
\* keys, one of them neither a primary-key field nor a required field any
\* more.
C19_Witness ==
    /\ resp.call = "update_source_registry"
    /\ resp.status = "OK"
    /\ \E coll \in DOMAIN registryTable :
          /\ DOMAIN registryTable[coll].metadata_type_map = RegistryKeys
          /\ registryTable[coll].required_metadata_fields = <<>>
          /\ registryTable[coll].primary_key_fields = <<"key1">>

\* the type map of the entry covers its primary-key and required fields
Covered(entry) ==
    Items(entry.primary_key_fields) \cup Items(entry.required_metadata_fields)
        \subseteq DOMAIN entry.metadata_type_map

\* the field names the entry would require, and those its type map would
\* hold, if the call were applied
WouldRequire(table, coll, primary_key_fields, required_fields) ==
    (IF coll \in DOMAIN table THEN Items(table[coll].primary_key_fields)
     ELSE IF primary_key_fields # None THEN Items(primary_key_fields[1])
     ELSE {})
    \cup (IF required_fields # None THEN Items(required_fields[1].items)
          ELSE IF coll \in DOMAIN table
          THEN Items(table[coll].required_metadata_fields)
          ELSE {})

WouldType(table, coll, metadata_type_map) ==
    (IF coll \in DOMAIN table THEN DOMAIN table[coll].metadata_type_map ELSE {})
    \cup (IF metadata_type_map # None THEN DOMAIN metadata_type_map[1] ELSE {})

\* C20: in every registry state reached by update_source_registry calls the
\* type map of each entry contains every name in primary_key_fields and
\* required_metadata_fields, and a call that would break this is rejected
\* with ArgumentError and writes nothing.
C20_TypeMapCoversRequired ==
    /\ \A coll \in DOMAIN registryTable : Covered(registryTable[coll])
    /\ \A coll \in RegistryCollections, primary_key_fields \in PrimaryKeyArgs,
          required_fields \in RequiredArgs, metadata_type_map \in TypeMapArgs :
            LET updated == update_source_registry(registryTable, registryCache,
                                                  coll, primary_key_fields,
                                                  required_fields,
                                                  metadata_type_map)
            IN  ~ (WouldRequire(registryTable, coll, primary_key_fields,
                                required_fields)
                       \subseteq WouldType(registryTable, coll,
                                           metadata_type_map)) =>
                    /\ updated.raised = "ArgumentError"
                    /\ updated.table = registryTable

-----------------------------------------------------------------------------
\* The parsed registry: update_parsed_registry on a registered collection.
\* The parsers of an entry are a Python dict, which keeps its keys in
\* insertion order (and so does its JSON form): a sequence of (name, info)
\* pairs. The info of a parser is a dict of the PAR fields it has.

NamesOf(parsers) == {parsers[i].name : i \in 1..Len(parsers)}

InfoOf(parsers, name) ==
    parsers[CHOOSE i \in 1..Len(parsers) : parsers[i].name = name].info

\* parsers[parser_name] = parser
SetParser(parsers, name, info) ==
    IF name \in NamesOf(parsers)
    THEN [i \in 1..Len(parsers) |->
            IF parsers[i].name = name THEN [name |-> name, info |-> info]
            ELSE parsers[i]]
    ELSE Append(parsers, [name |-> name, info |-> info])

\* the named parser marked default, and no other parser demoted
PromotedOnly(parsers, name) ==
    [i \in 1..Len(parsers) |->
        IF parsers[i].name = name
        THEN [name |-> name,
              info |-> Updated(parsers[i].info, [default |-> TRUE])]
        ELSE parsers[i]]

\* the named parser marked default, and every other parser marked
\* non-default
Promoted(parsers, name) ==
    [i \in 1..Len(parsers) |->
        [name |-> parsers[i].name,
         info |-> Updated(parsers[i].info,
                          [default |-> parsers[i].name = name])]]

\* update_parsed_registry(database, collection, parser_name,
\* primary_key_fields, row_type_map, timezone, promote_default): the
\* registry table and the cache after the call, and the error raised (""
\* when none)
update_parsed_registry(table, cache, coll, parser_name, primary_key_fields, row_type_map, timezone, promote_default) ==
    LET exists == coll \in DOMAIN table
        parsers == table[coll].parsers
        known == parser_name \in NamesOf(parsers)
        start == IF known THEN InfoOf(parsers, parser_name) ELSE EmptyMap
        \* an empty tuple and an empty dict are falsy
        keyed == IF primary_key_fields # None /\ primary_key_fields[1] # <<>>
                 THEN Updated(start,
                              [primary_key_fields |-> primary_key_fields[1]])
                 ELSE start
        typed == IF row_type_map # None /\ DOMAIN row_type_map[1] # {}
                 THEN Updated(keyed, [row_type_map |-> row_type_map[1]])
                 ELSE keyed
        parser == IF timezone # None
                  THEN Updated(typed, [timezone |-> timezone[1]])
                  ELSE typed
        put == SetParser(parsers, parser_name, parser)
        marked == IF Len(put) = 1 \/ promote_default
                  THEN Promoted(put, parser_name) ELSE put
        entry == [table[coll] EXCEPT !.parsers = marked]
        \* _get_registry_entry caches the entry it has read
        read == IF exists THEN PutEntry(cache, coll, table[coll]) ELSE cache
    IN  IF ~ exists
        THEN [table |-> table, cache |-> cache, raised |-> "OperationError"]
        ELSE IF /\ ~ known
                /\ \/ primary_key_fields = None
                   \/ row_type_map = None
                   \/ timezone = None
        THEN [table |-> table, cache |-> read, raised |-> "ArgumentError"]
        \* parser[PKEYS], parser[TMAP] of a parser that never got them
        ELSE IF {"primary_key_fields", "row_type_map"} \ DOMAIN parser # {}
        THEN [table |-> table, cache |-> read, raised |-> "KeyError"]
        ELSE IF ~ (Items(parser.primary_key_fields)
                       \subseteq DOMAIN parser.row_type_map)
        THEN [table |-> table, cache |-> read, raised |-> "ArgumentError"]
        ELSE [table |-> PutEntry(table, coll, entry),
              cache |-> PutEntry(read, coll, entry), raised |-> ""]

RECURSIVE FirstDefault(_)
\* for parser, info in parsers.items(): if info["default"]: return parser
FirstDefault(parsers) ==
    IF parsers = <<>> THEN "ValueError"
    ELSE IF "default" \notin DOMAIN Head(parsers).info THEN "KeyError"
    ELSE IF Head(parsers).info.default THEN Head(parsers).name
    ELSE FirstDefault(Tail(parsers))

\* the default_parser_name property on an entry: the name of the default
\* parser, or the error raised
default_parser_name_of(entry) ==
    IF Len(entry.parsers) = 0 THEN "OperationError"
    ELSE FirstDefault(entry.parsers)

\* the collections the calls name: the registered one and one that is not
ParsedRegistryCollections == {"load", "hyper_load"}

RegisteredParsers == {"first_parser", "second_parser", "third_parser"}

ParserKeyArgs ==
    {None, Some(<<>>), Some(<<"key1">>), Some(<<"key1", "key2">>)}

RowTypeMapArgs ==
    {None, Some(EmptyMap), Some([key1 |-> "DATETIME"]),
     Some([key1 |-> "INT", key2 |-> "STR"])}

TimezoneArgs == {None, Some("America/Chicago")}

\* update_parsed_registry(...)
UpdateParsedRegistry(coll, parser_name, primary_key_fields, row_type_map, timezone, promote_default) ==
    LET updated == update_parsed_registry(registryTable, registryCache, coll,
                                          parser_name, primary_key_fields,
                                          row_type_map, timezone,
                                          promote_default)
    IN  /\ registryTable' = updated.table
        /\ registryCache' = updated.cache
        /\ cachedAt' = Stamped(cachedAt, updated.cache, coll, now)
        /\ resp' = Call("update_parsed_registry",
                        IF updated.raised = ""
                        THEN Returned("OK", NoVersion, Some(parser_name))
                        ELSE Raised(updated.raised))
        /\ UNCHANGED <<selected, sourceTable, sourceBucket, pc, pending,
                       parsedBucket, now, lastScan, held,
                       cacheTtl, sesh>>

\* the registry after update_source_registry("miso", "load",
\* primary_key_fields="key1", metadata_type_map={"key1": datetime}) and
\* select_collection("load")
LoadRegistered ==
    [c \in {"load"} |->
        [primary_key_fields |-> <<"key1">>,
         required_metadata_fields |-> <<>>,
         metadata_type_map |-> [key1 |-> "DATETIME"],
         parsers |-> <<>>]]

ParsersInit ==
    /\ selected = "load"
    /\ sourceTable = {}
    /\ sourceBucket = <<>>
    /\ resp = Call("init", Returned("init", NoVersion, NoResult))
    /\ pc = <<>>
    /\ pending = <<>>
    /\ parsedBucket = <<>>
    /\ registryTable = LoadRegistered
    /\ registryCache = LoadRegistered
    /\ now = 0
    /\ cachedAt = CachedAt(registryCache, now)
    /\ lastScan = None
    /\ held = None
    /\ cacheTtl = DEFAULT_CACHE_TTL
    /\ sesh = NoRole

ParsersNext ==
    \E coll \in ParsedRegistryCollections, parser_name \in RegisteredParsers,
       primary_key_fields \in ParserKeyArgs, row_type_map \in RowTypeMapArgs,
       timezone \in TimezoneArgs, promote_default \in BOOLEAN :
        UpdateParsedRegistry(coll, parser_name, primary_key_fields,
                             row_type_map, timezone, promote_default)

SpecParsers == ParsersInit /\ [][ParsersNext]_vars

-----------------------------------------------------------------------------
\* Properties of the parsed registry.

\* the parsers of the entry that have default=true
Defaults(parsers) ==
    {i \in 1..Len(parsers) :
        /\ "default" \in DOMAIN parsers[i].info
        /\ parsers[i].info.default}

\* C21: after any sequence of update_parsed_registry calls on a collection
\* exactly one registered parser has default=true whenever at least one
\* parser is registered: the first parser becomes default regardless of
\* flags, promote_default=true makes the named parser default and demotes
\* all others, and an update without promotion leaves the default unchanged.
C21_ExactlyOneDefault ==
    /\ \A c \in DOMAIN registryTable :
          LET parsers == registryTable[c].parsers
          IN  Len(parsers) > 0 =>
                /\ Cardinality(Defaults(parsers)) = 1
                /\ default_parser_name_of(registryTable[c]) \in NamesOf(parsers)
    /\ \A coll \in DOMAIN registryTable, parser_name \in RegisteredParsers,
          primary_key_fields \in ParserKeyArgs,
          row_type_map \in RowTypeMapArgs, timezone \in TimezoneArgs,
          promote_default \in BOOLEAN :
            LET updated == update_parsed_registry(registryTable,
                               registryCache, coll, parser_name,
                               primary_key_fields, row_type_map, timezone,
                               promote_default)
                before == default_parser_name_of(registryTable[coll])
                after == default_parser_name_of(updated.table[coll])
            IN  updated.raised = "" =>
                    after = IF Len(registryTable[coll].parsers) = 0
                               \/ promote_default
                            THEN parser_name ELSE before

\* C21 witness: three parsers are registered, the default is not the first
\* one registered, and the last call updated a parser that is not the
\* default.
C21_Witness ==
    /\ resp.call = "update_parsed_registry"
    /\ resp.status = "OK"
    /\ Len(registryTable["load"].parsers) = 3
    /\ default_parser_name_of(registryTable["load"])
          \notin {registryTable["load"].parsers[1].name, resp.result[1]}

-----------------------------------------------------------------------------
\* The registry cache: a client with a cache TTL reads the registry while a
\* peer process writes the registry table.
\*
\* A value handed across a call is an object: its value, and the set of
\* cache entries (collections) whose cached row is that same object, so
\* that a mutation of the object by the caller is a mutation of those rows.

\* the row itself where a copy was due: it shares the objects it shared
SameObject(shares) == shares

\* copy.deepcopy(row): the copy shares no object with the row
deepcopy(shares) == {}

\* an entry still served at the moment its TTL has elapsed
UnexpiredInclusive(t, stored, ttl) == t <= stored + ttl

\* now < time + self._cache_ttl
Unexpired(t, stored, ttl) == t < stored + ttl

\* _update_cache(row): the cache holds a deep copy of the row, stamped with
\* the time; `shares` is what the stored row shares with the row given
_update_cache(cache, times, coll, row, t) ==
    [cache |-> PutEntry(cache, coll, row), times |-> PutEntry(times, coll, t),
     shares |-> deepcopy({coll})]

\* _get_cached(db, coll): a deep copy of the cached row if there is one and
\* it has not expired, else None; an expired entry is deleted
_get_cached(cache, times, coll, t, ttl) ==
    IF coll \notin DOMAIN cache
    THEN [row |-> None, shares |-> {}, cache |-> cache, times |-> times]
    ELSE IF Unexpired(t, times[coll], ttl)
    THEN [row |-> Some(cache[coll]), shares |-> deepcopy({coll}),
          cache |-> cache, times |-> times]
    ELSE [row |-> None, shares |-> {}, cache |-> Without(cache, coll),
          times |-> Without(times, coll)]

\* _get_registry_entry(db, coll, use_cached): the entry (None when it raises
\* OperationError), and the cache after the call
_get_registry_entry(table, cache, times, coll, use_cached, t, ttl) ==
    LET cached == IF use_cached THEN _get_cached(cache, times, coll, t, ttl)
                  ELSE [row |-> None, shares |-> {}, cache |-> cache,
                        times |-> times]
        stored == _update_cache(cached.cache, cached.times, coll, table[coll],
                                t)
    IN  IF cached.row # None
        THEN [entry |-> cached.row, shares |-> cached.shares,
              cache |-> cached.cache, times |-> cached.times]
        ELSE IF coll \in DOMAIN table
        THEN [entry |-> Some(table[coll]), shares |-> stored.shares,
              cache |-> stored.cache, times |-> stored.times]
        ELSE [entry |-> None, shares |-> {}, cache |-> cached.cache,
              times |-> cached.times]

\* the cache replayed whenever a full scan was ever made
IterRegistryAnyScan(table, cache, times, last_scan, use_cached, t, ttl) ==
    IF use_cached /\ last_scan # None
    THEN [rows |-> cache, scanned |-> FALSE, cache |-> cache, times |-> times,
          last_scan |-> last_scan]
    ELSE [rows |-> table, scanned |-> TRUE,
          cache |-> [c \in DOMAIN cache \cup DOMAIN table |->
                        IF c \in DOMAIN table THEN table[c] ELSE cache[c]],
          times |-> [c \in DOMAIN cache \cup DOMAIN table |->
                        IF c \in DOMAIN table THEN t ELSE times[c]],
          last_scan |-> Some(t)]

\* _iter_registry(use_cached), run to its end: the collections it yields,
\* and the cache and _last_scan after it
_iter_registry(table, cache, times, last_scan, use_cached, t, ttl) ==
    IF use_cached /\ last_scan # None /\ Unexpired(t, last_scan[1], ttl)
    THEN [rows |-> cache, scanned |-> FALSE, cache |-> cache, times |-> times,
          last_scan |-> last_scan]
    ELSE [rows |-> table, scanned |-> TRUE,
          cache |-> [c \in DOMAIN cache \cup DOMAIN table |->
                        IF c \in DOMAIN table THEN table[c] ELSE cache[c]],
          times |-> [c \in DOMAIN cache \cup DOMAIN table |->
                        IF c \in DOMAIN table THEN t ELSE times[c]],
          last_scan |-> Some(t)]

\* the clock stops at MaxTime
MaxTime == 3

\* cache_ttl as configured: no caching, or two seconds
CacheTtls == {0, 2}

CacheCollections == {"realtime_price", "load"}

\* the type maps a collection is registered with and updated by
CacheTypeMaps == {[key1 |-> "INT"], [new_key |-> "DATETIME"]}

\* what a caller does to a dict it holds: it sets a key of its own
Mutated(row) ==
    [row EXCEPT !.metadata_type_map = Updated(@, [mutated |-> "STR"])]

\* an object the caller holds
Object(value, shares) == [value |-> value, shares |-> shares]

\* time passes
Tick ==
    /\ now < MaxTime
    /\ now' = now + 1
    /\ UNCHANGED <<selected, sourceTable, sourceBucket, resp, pc, pending,
                   parsedBucket, registryTable, registryCache, cachedAt,
                   lastScan, held, cacheTtl, sesh>>

\* update_source_registry(...) by a peer process, with a cache of its own
PeerUpdateSourceRegistry(coll, metadata_type_map) ==
    LET updated == update_source_registry(registryTable, <<>>, coll,
                                          Some(<<"key1">>), None,
                                          Some(metadata_type_map))
    IN  /\ updated.raised = ""
        /\ registryTable' = updated.table
        /\ UNCHANGED <<selected, sourceTable, sourceBucket, resp, pc, pending,
                       parsedBucket, registryCache, now, cachedAt, lastScan,
                       held, cacheTtl, sesh>>

\* update_source_registry(...) by the client, which keeps the dict it passed
ClientUpdateSourceRegistry(coll, metadata_type_map) ==
    LET updated == update_source_registry(registryTable, registryCache, coll,
                                          Some(<<"key1">>), None,
                                          Some(metadata_type_map))
    IN  /\ registryTable' = updated.table
        /\ registryCache' = updated.cache
        /\ cachedAt' = Stamped(cachedAt, updated.cache, coll, now)
        /\ resp' = Call("update_source_registry",
                        IF updated.raised = ""
                        THEN Returned("OK", NoVersion, NoResult)
                        ELSE Raised(updated.raised))
        /\ held' = IF updated.raised = ""
                   THEN Some(Object(updated.table[coll], deepcopy({coll})))
                   ELSE None
        /\ UNCHANGED <<selected, sourceTable, sourceBucket, pc, pending,
                       parsedBucket, now, lastScan, cacheTtl, sesh>>

\* select_collection(collection, database=database)
SelectCollection(coll) ==
    LET read == _get_registry_entry(registryTable, registryCache, cachedAt,
                                    coll, FALSE, now, cacheTtl)
    IN  /\ registryCache' = read.cache
        /\ cachedAt' = read.times
        /\ selected' = IF read.entry # None THEN coll ELSE selected
        /\ resp' = Call("select_collection",
                        IF read.entry # None
                        THEN Returned("OK", NoVersion, Some(coll))
                        ELSE Raised("OperationError"))
        /\ held' = None
        /\ UNCHANGED <<sourceTable, sourceBucket, pc, pending, parsedBucket,
                       registryTable, now, lastScan, cacheTtl, sesh>>

\* a registry property of the selected collection (primary_key_fields,
\* required_metadata_fields, metadata_type_map, available_parsers): the
\* entry it reads, or the error raised; self.database raises OperationError
\* when nothing is selected
registry_property(sel, table, cache, times, t, ttl) ==
    IF sel = NoSelection
    THEN [entry |-> None, shares |-> {}, cache |-> cache, times |-> times]
    ELSE _get_registry_entry(table, cache, times, sel, TRUE, t, ttl)

\* the caller reads metadata_type_map and keeps the dict
ReadProperty ==
    LET read == registry_property(selected, registryTable, registryCache,
                                  cachedAt, now, cacheTtl)
    IN  /\ registryCache' = read.cache
        /\ cachedAt' = read.times
        /\ resp' = Call("metadata_type_map",
                        IF read.entry # None
                        THEN Returned("OK", NoVersion, read.entry)
                        ELSE Raised("OperationError"))
        /\ held' = IF read.entry # None
                   THEN Some(Object(read.entry[1], read.shares))
                   ELSE None
        /\ UNCHANGED <<selected, sourceTable, sourceBucket, pc, pending,
                       parsedBucket, registryTable, now, lastScan, cacheTtl, sesh>>

\* list_databases_and_collections()
ListDatabasesAndCollections ==
    LET listed == _iter_registry(registryTable, registryCache, cachedAt,
                                 lastScan, TRUE, now, cacheTtl)
    IN  /\ registryCache' = listed.cache
        /\ cachedAt' = listed.times
        /\ lastScan' = listed.last_scan
        /\ resp' = Call("list_databases_and_collections",
                        Returned("OK", NoVersion, Some(DOMAIN listed.rows)))
        /\ held' = None
        /\ UNCHANGED <<selected, sourceTable, sourceBucket, pc, pending,
                       parsedBucket, registryTable, now, cacheTtl, sesh>>

\* the caller mutates the dict it holds; the cached rows that are the same
\* object change with it
Mutate ==
    /\ held # None
    /\ "mutated" \notin DOMAIN held[1].value.metadata_type_map
    /\ held' = Some(Object(Mutated(held[1].value), held[1].shares))
    /\ registryCache' = [c \in DOMAIN registryCache |->
                            IF c \in held[1].shares
                            THEN Mutated(registryCache[c])
                            ELSE registryCache[c]]
    /\ resp' = Call("mutate", Returned("OK", NoVersion, NoResult))
    /\ UNCHANGED <<selected, sourceTable, sourceBucket, pc, pending,
                   parsedBucket, registryTable, now, cachedAt, lastScan,
                   cacheTtl, sesh>>

\* a new client on an empty registry, with the cache TTL it was given
CacheInit ==
    /\ selected = NoSelection
    /\ sourceTable = {}
    /\ sourceBucket = <<>>
    /\ resp = Call("init", Returned("init", NoVersion, NoResult))
    /\ pc = <<>>
    /\ pending = <<>>
    /\ parsedBucket = <<>>
    /\ registryTable = <<>>
    /\ registryCache = <<>>
    /\ now = 0
    /\ cachedAt = CachedAt(registryCache, now)
    /\ lastScan = None
    /\ held = None
    /\ cacheTtl \in CacheTtls
    /\ sesh = NoRole

CacheNext ==
    \/ Tick
    \/ \E coll \in CacheCollections, metadata_type_map \in CacheTypeMaps :
          PeerUpdateSourceRegistry(coll, metadata_type_map)
    \/ \E coll \in CacheCollections, metadata_type_map \in CacheTypeMaps :
          ClientUpdateSourceRegistry(coll, metadata_type_map)
    \/ \E coll \in CacheCollections : SelectCollection(coll)
    \/ ReadProperty
    \/ ListDatabasesAndCollections
    \/ Mutate

SpecCache == CacheInit /\ [][CacheNext]_vars

-----------------------------------------------------------------------------
\* Properties of the registry cache.

\* the TTL of the cached entry of the collection has not elapsed since it
\* was stored
Fresh(coll) ==
    /\ coll \in DOMAIN registryCache
    /\ now - cachedAt[coll] < cacheTtl

\* a cached read and select_collection, made in the current state
CachedRead == registry_property(selected, registryTable, registryCache, cachedAt, now, cacheTtl)

Selecting(coll) == _get_registry_entry(registryTable, registryCache, cachedAt, coll, FALSE, now, cacheTtl)

\* a cached read returns the cached entry while its TTL has not elapsed,
\* whatever the registry table holds by then, and the entry of the table
\* once it has; select_collection returns the entry of the table
ReadsServeCacheUntilExpiry ==
    /\ selected # NoSelection =>
          /\ CachedRead.entry =
                IF Fresh(selected) THEN Some(registryCache[selected])
                ELSE Some(registryTable[selected])
          /\ ~ Fresh(selected) =>
                CachedRead.cache[selected] = registryTable[selected]
    /\ \A coll \in DOMAIN registryTable :
          /\ Selecting(coll).entry = Some(registryTable[coll])
          /\ Selecting(coll).cache[coll] = registryTable[coll]

\* the cached entry of a collection changes only by being stored anew, from
\* the registry table as it is at that time
CacheOnlyStoresTable ==
    \A coll \in DOMAIN registryCache' :
        (\/ coll \notin DOMAIN registryCache
         \/ registryCache'[coll] # registryCache[coll]
         \/ cachedAt'[coll] # cachedAt[coll]) =>
            /\ cachedAt'[coll] = now
            /\ registryCache'[coll] = registryTable'[coll]

\* C22: a registry update made by a peer process is not observed through
\* cached reads of the client until the TTL of the local cache entry has
\* elapsed since the entry was stored, and is observed by the first cached
\* read after that; select_collection always reads the registry table and
\* so observes the update of the peer immediately.
C22_PeerUpdateSeenAfterTtl ==
    [] ReadsServeCacheUntilExpiry /\ [][CacheOnlyStoresTable]_vars

\* C22 witness: the client has just read a property from its cache, a
\* second after a peer changed the entry in the registry table, and got
\* the entry as it was before.
C22_Witness ==
    /\ resp.call = "metadata_type_map"
    /\ resp.status = "OK"
    /\ selected # NoSelection
    /\ resp.result[1] # registryTable[selected]
    /\ now - cachedAt[selected] = 1

\* a full scan was made less than cache_ttl ago
ScanRecent == lastScan # None /\ now - lastScan[1] < cacheTtl

\* list_databases_and_collections, made in the current state
Listing == _iter_registry(registryTable, registryCache, cachedAt, lastScan, TRUE, now, cacheTtl)

\* C23: listing databases and collections replays the cache only when a
\* full scan was completed less than cache_ttl ago; otherwise it performs a
\* full scan and returns every collection currently in the registry table,
\* so with cache_ttl = 0 every listing reflects the table, and after the
\* TTL has elapsed the collections registered by peers appear.
C23_ListingScansAfterTtl ==
    /\ IF ScanRecent
       THEN /\ ~ Listing.scanned
            /\ Listing.rows = registryCache
            /\ Listing.last_scan = lastScan
       ELSE /\ Listing.scanned
            /\ Listing.rows = registryTable
            /\ Listing.cache = registryTable
            /\ Listing.last_scan = Some(now)
    /\ cacheTtl = 0 => Listing.rows = registryTable

\* C23 witness: a listing has just replayed the cache of an earlier scan
\* and misses a collection a peer has registered since.
C23_Witness ==
    /\ resp.call = "list_databases_and_collections"
    /\ lastScan # None
    /\ lastScan # Some(now)
    /\ resp.result[1] # DOMAIN registryTable

\* the caller's mutation is in the dict
IsMutated(row) == "mutated" \in DOMAIN row.metadata_type_map

\* C24: registry values returned to or supplied by a caller never alias
\* the cache: mutating a returned value, or a value passed to an update
\* call after it returns, does not change what later cached reads return.
C24_CacheNeverAliased ==
    /\ held # None => held[1].shares = {}
    /\ \A coll \in DOMAIN registryCache : ~ IsMutated(registryCache[coll])
    /\ (selected # NoSelection /\ CachedRead.entry # None) =>
          ~ IsMutated(CachedRead.entry[1])

\* C24 witness: the caller has mutated the dict a cached read returned,
\* while the entry is still served from the cache, and the cached row is
\* what it was.
C24_Witness ==
    /\ resp.call = "mutate"
    /\ selected # NoSelection
    /\ Fresh(selected)
    /\ held # None
    /\ held[1].value = Mutated(registryCache[selected])

-----------------------------------------------------------------------------
\* Selection, forced stores of files with any metadata, and range queries:
\* a new client on a registry holding the two collections.

\* the key a metadata field has in the model ("last-modified" is no
\* record field name)
FieldKey(name) == IF name = "last-modified" THEN "last_modified" ELSE name

\* get_primary_key(metadata): the primary key fields missing from it
MissingPrimaryKey(coll, metadata) ==
    {FieldKey(k) : k \in Items(Registry[coll].primary_key_fields)}
        \ DOMAIN metadata

\* _validate_fields(metadata): the required fields missing from it
_validate_fields(coll, metadata) ==
    ({FieldKey(k) : k \in Items(required_metadata_fields(coll))}
        \cup {"retrieved_date", "release_date", "feed_id", "md5", "bytes"})
        \ DOMAIN metadata

\* store(file, force_store=True) with whatever metadata the file carries:
\* get_primary_key, then store_source
force_store(table, bucket, coll, file, uid) ==
    LET given == file.metadata
        hash_key == _generate_hash_key(coll, given.url)
        range_key == _generate_range_key(given.retrieved_date, uid)
        metadata == Updated(given,
                            [file_key |-> hash_key,
                             source_version |-> range_key,
                             feed_id |-> _get_collection_id(coll),
                             bytes |-> FALSE,
                             md5 |-> get_md5(file.content)])
        s3_key == _generate_s3_key(hash_key, range_key)
        uploaded == _s3_insert(bucket, s3_key, file.content)
        inserted == _insert_source_table_item(table,
                        Encoded(coll, Updated(metadata, [s3_key |-> s3_key])))
    IN  IF MissingPrimaryKey(coll, given) # {}
        THEN Effect(table, bucket, Raised("MetadataError"))
        ELSE IF "retrieved_date" \notin DOMAIN given
        THEN Effect(table, bucket, Raised("MetadataError"))
        ELSE IF _validate_fields(coll, metadata) # {}
        THEN Effect(table, bucket, Raised("MetadataError"))
        ELSE IF inserted.raised
        THEN Effect(inserted.table, uploaded, Raised(ConditionalCheckFailed))
        ELSE Effect(inserted.table, uploaded,
                    Returned("SUCCESS", range_key, NoResult))

\* the metadata a complete file of the tests carries
QueryBase ==
    [url |-> "u1", retrieved_date |-> 10, filename |-> "f",
     last_modified |-> 1]

\* the release date and the content window of a file: windows that end a
\* second after they start, a window without an end, no window at all, and
\* a window that starts within a second
QueryWindows ==
    {[release_date |-> 9, content_start |-> <<9, 0>>,
      content_end |-> <<10, 0>>],
     [release_date |-> 10, content_start |-> <<10, 0>>,
      content_end |-> <<11, 0>>],
     [release_date |-> 10, content_start |-> <<10, 500000>>,
      content_end |-> <<11, 0>>],
     [release_date |-> 11, content_start |-> <<11, 0>>],
     [release_date |-> 10]}

\* the files the client stores: complete ones, and files that miss the
\* release date, the retrieved date, the primary key or the fields the
\* collection requires
QueryFiles ==
    {[content |-> "A", metadata |-> Updated(QueryBase, w)] : w \in QueryWindows}
    \cup {[content |-> "A", metadata |-> m] :
            m \in {QueryBase,
                   Without(Updated(QueryBase, [release_date |-> 10]),
                           "retrieved_date"),
                   Without(Updated(QueryBase, [release_date |-> 10]), "url"),
                   [url |-> "u1", retrieved_date |-> 10,
                    release_date |-> 10]}}

\* the collections the client names: the registered ones and one that is not
SelectableCollections == Collections \cup {"hyper_load"}

\* store(file, force_store=True) of the client; self.database raises
\* OperationError while nothing is selected
store_selected(sel, table, bucket, file, uid) ==
    IF sel = NoSelection
    THEN Effect(table, bucket, Raised("OperationError"))
    ELSE force_store(table, bucket, sel, file, uid)

\* a retrieve that never looks at the selection
RetrieveUnselected(sel, table, url) ==
    retrieve_metadata(table, sel, url, NoVersion)

\* retrieve(primary_key, metadata_only=True) of the client
retrieve_selected(sel, table, url) ==
    IF sel = NoSelection THEN Raised("OperationError")
    ELSE retrieve_metadata(table, sel, url, NoVersion)

ForceStoreFile(file, uid) ==
    LET effect == store_selected(selected, sourceTable, sourceBucket, file,
                                 uid)
    IN  /\ RoomFor(sourceTable)
        /\ sourceTable' = effect.table
        /\ sourceBucket' = effect.bucket
        /\ resp' = Call("store", effect.resp)
        /\ UNCHANGED <<selected, pc, pending, parsedBucket, registryTable,
                       registryCache, now, cachedAt, lastScan, held, cacheTtl, sesh>>

RetrieveSelected(url) ==
    /\ resp' = Call("retrieve", retrieve_selected(selected, sourceTable, url))
    /\ UNCHANGED <<selected, sourceTable, sourceBucket, pc, pending,
                   parsedBucket, registryTable, registryCache, now, cachedAt,
                   lastScan, held, cacheTtl, sesh>>

\* API.INDEXES and INDEX_INFO: the two secondary indexes of the source table
CONTENT == "ContentStartIndex"
RELEASE == "ReleaseDateIndex"

INDEX_INFO ==
    [ContentStartIndex |->
        [hash |-> "feed_id", range |-> "content_start", end |-> "content_end"],
     ReleaseDateIndex |->
        [hash |-> "feed_id", range |-> "release_date", end |-> PyNone]]

\* a datetime taken up to the next whole second
RoundedUp(dt) == IF dt[2] > 0 THEN dt[1] + 1 ELSE dt[1]

\* timestamp.from_datetime: the whole epoch seconds of a datetime
\* <<epoch second, microsecond>>
from_datetime(dt) == dt[1]

\* every attribute written as a string
FormatAllStrings(coll, key) == "S"

\* _format_dynamo: the DynamoDB type of an attribute, "N" for datetimes and
\* ints and "S" otherwise
_format_dynamo(coll, key) ==
    IF _type(coll, key) \in {"DATETIME", "INT"} THEN "N" ELSE "S"

\* the epoch seconds a row holds under a datetime key
EpochOf(row, key) ==
    IF key \in {"content_start", "content_end"} THEN row[key][1] ELSE row[key]

\* the order of two attribute values in DynamoDB: numbers by value, strings
\* byte-wise
AttrLess(type, a, b) ==
    IF type = "N" THEN a < b ELSE StrLess(Digits(a), Digits(b))

AttrLeq(type, a, b) == a = b \/ AttrLess(type, a, b)

\* a criteria that always scans forward
CriteriaForward(coll, query_range, index, ascending) ==
    LET chosen == IF query_range = None /\ index = None THEN RELEASE
                  ELSE IF index = None THEN CONTENT
                  ELSE index[1]
    IN  [IndexName |-> chosen,
         ScanIndexForward |-> TRUE,
         hash_val |-> _get_collection_id(coll),
         type |-> _format_dynamo(coll, INDEX_INFO[chosen].range),
         condition |-> IF query_range = None THEN "hash"
                       ELSE IF chosen = CONTENT THEN "upto"
                       ELSE "between",
         filtered |-> query_range # None /\ chosen = CONTENT,
         min_range |-> IF query_range = None THEN None
                       ELSE Some(from_datetime(query_range[1].start)),
         max_range |-> IF query_range = None THEN None
                       ELSE Some(from_datetime(query_range[1].end))]

\* _range_query_criteria(query_range, index, ascending): the index chosen,
\* the direction, the key condition, the filter and the bounds
_range_query_criteria(coll, query_range, index, ascending) ==
    LET chosen == IF query_range = None /\ index = None THEN RELEASE
                  ELSE IF index = None THEN CONTENT
                  ELSE index[1]
    IN  [IndexName |-> chosen,
         ScanIndexForward |-> ascending,
         hash_val |-> _get_collection_id(coll),
         type |-> _format_dynamo(coll, INDEX_INFO[chosen].range),
         condition |-> IF query_range = None THEN "hash"
                       ELSE IF chosen = CONTENT THEN "upto"
                       ELSE "between",
         filtered |-> query_range # None /\ chosen = CONTENT,
         min_range |-> IF query_range = None THEN None
                       ELSE Some(from_datetime(query_range[1].start)),
         max_range |-> IF query_range = None THEN None
                       ELSE Some(from_datetime(query_range[1].end))]

\* the rows a query on an index matches: those that have the keys of the
\* index, the hash value, a range key meeting the key condition, and that
\* pass the filter
QueryMatches(table, criteria) ==
    LET info == INDEX_INFO[criteria.IndexName]
        Key(row) == EpochOf(row, info.range)
    IN  {row \in table :
            /\ {info.hash, info.range} \subseteq DOMAIN row
            /\ row[info.hash] = criteria.hash_val
            /\ \/ criteria.condition = "hash"
               \/ /\ criteria.condition = "upto"
                  /\ AttrLeq(criteria.type, Key(row), criteria.max_range[1])
               \/ /\ criteria.condition = "between"
                  /\ AttrLeq(criteria.type, criteria.min_range[1], Key(row))
                  /\ AttrLeq(criteria.type, Key(row), criteria.max_range[1])
            /\ criteria.filtered =>
                  \/ info.end \notin DOMAIN row
                  \/ AttrLess(criteria.type, criteria.min_range[1],
                              EpochOf(row, info.end))}

\* the orders a query may yield its rows in: by the range key of the index,
\* forward or backward, rows with equal keys in any order
QueryOrders(table, criteria) ==
    LET rows == QueryMatches(table, criteria)
        key == INDEX_INFO[criteria.IndexName].range
        Before(a, b) == IF criteria.ScanIndexForward
                        THEN AttrLeq(criteria.type, EpochOf(a, key),
                                     EpochOf(b, key))
                        ELSE AttrLeq(criteria.type, EpochOf(b, key),
                                     EpochOf(a, key))
    IN  {seq \in [1..Cardinality(rows) -> rows] :
            /\ \A i, j \in DOMAIN seq : i # j => seq[i] # seq[j]
            /\ \A i, j \in DOMAIN seq : i < j => Before(seq[i], seq[j])}

\* query_metadata_items(query_range, index, ascending), run to its end: the
\* sequences of rows it may yield, none when it raises OperationError
\* because nothing is selected
query_metadata_items(sel, table, query_range, index, ascending) ==
    IF sel = NoSelection THEN {}
    ELSE QueryOrders(table,
                     _range_query_criteria(sel, query_range, index, ascending))

\* the ranges the client queries: on whole seconds, and starting or ending
\* within a second
QueryRanges ==
    {[start |-> <<10, 0>>, end |-> <<10, 0>>],
     [start |-> <<9, 0>>, end |-> <<10, 0>>],
     [start |-> <<10, 0>>, end |-> <<11, 0>>],
     [start |-> <<10, 500000>>, end |-> <<11, 0>>],
     [start |-> <<9, 0>>, end |-> <<10, 500000>>]}

QueryRangeArgs == {None} \cup {Some(r) : r \in QueryRanges}

QueryIndexArgs == {None, Some(CONTENT), Some(RELEASE)}

QueryMetadataItems(query_range, index, ascending) ==
    LET yielded == query_metadata_items(selected, sourceTable, query_range,
                                        index, ascending)
    IN  /\ IF selected = NoSelection
           THEN resp' = Call("query_metadata_items", Raised("OperationError"))
           ELSE \E seq \in yielded :
                  resp' = Call("query_metadata_items",
                               Returned("OK", NoVersion, seq))
        /\ UNCHANGED <<selected, sourceTable, sourceBucket, pc, pending,
                       parsedBucket, registryTable, registryCache, now,
                       cachedAt, lastScan, held, cacheTtl, sesh>>

QueryInit ==
    /\ selected = NoSelection
    /\ sourceTable = {}
    /\ sourceBucket = <<>>
    /\ resp = Call("init", Returned("init", NoVersion, NoResult))
    /\ pc = <<>>
    /\ pending = <<>>
    /\ parsedBucket = <<>>
    /\ registryTable = RegisteredCollections
    /\ registryCache = <<>>
    /\ now = 0
    /\ cachedAt = CachedAt(registryCache, now)
    /\ lastScan = None
    /\ held = None
    /\ cacheTtl = DEFAULT_CACHE_TTL
    /\ sesh = NoRole

QueryNext ==
    \/ \E coll \in SelectableCollections : SelectCollection(coll)
    \/ ReadProperty
    \/ \E file \in QueryFiles, uid \in Uids : ForceStoreFile(file, uid)
    \/ \E url \in PKeys : RetrieveSelected(url)
    \/ \E query_range \in QueryRangeArgs, index \in QueryIndexArgs,
          ascending \in BOOLEAN :
            QueryMetadataItems(query_range, index, ascending)

SpecQuery == QueryInit /\ [][QueryNext]_vars

-----------------------------------------------------------------------------
\* Properties of the selection.

\* with nothing selected the registry properties, store, retrieve and query
\* all raise OperationError, and selecting a collection that is not
\* registered raises it too
NothingSelectedRaises ==
    /\ selected = NoSelection =>
        /\ CachedRead.entry = None
        /\ \A file \in QueryFiles, uid \in Uids :
              store_selected(selected, sourceTable, sourceBucket, file,
                             uid).resp.status = "OperationError"
        /\ \A url \in PKeys :
              retrieve_selected(selected, sourceTable, url).status
                  = "OperationError"
        /\ \A query_range \in QueryRangeArgs, index \in QueryIndexArgs,
              ascending \in BOOLEAN :
                query_metadata_items(selected, sourceTable, query_range,
                                     index, ascending) = {}
        /\ resp.call \in {"metadata_type_map", "store", "retrieve",
                          "query_metadata_items"}
              => resp.status = "OperationError"
    /\ \A coll \in SelectableCollections \ DOMAIN registryTable :
          Selecting(coll).entry = None

\* the selection changes only in a select_collection call that names a
\* registered collection and returns, and a select_collection call that
\* raises leaves it alone
SelectedBySelectCollection ==
    /\ selected' # selected =>
        /\ selected' \in DOMAIN registryTable
        /\ resp'.call = "select_collection"
        /\ resp'.status = "OK"
        /\ resp'.result = Some(selected')
    /\ resp'.status = "OperationError" => selected' = selected

\* C25: while no collection is selected every collection-scoped property
\* and operation (the registry properties, store, retrieve, query) raises
\* OperationError; a collection becomes selected only by a select_collection
\* call naming a registered collection, and selecting an unregistered one
\* raises OperationError
C25_SelectionRequired ==
    [] NothingSelectedRaises /\ [][SelectedBySelectCollection]_vars

\* a store was refused for want of a selection, in a client that holds
\* nothing yet
C25_Witness ==
    /\ selected = NoSelection
    /\ resp.call = "store"
    /\ resp.status = "OperationError"
    /\ sourceTable = {}

-----------------------------------------------------------------------------
\* Properties of the range queries.

\* datetimes <<epoch second, microsecond>> in time order
DtLeq(a, b) == a[1] < b[1] \/ (a[1] = b[1] /\ a[2] <= b[2])

DtLess(a, b) == DtLeq(a, b) /\ a # b

\* the source rows of the selected collection
RowsOfSelected ==
    {row \in sourceTable : row.feed_id = _get_collection_id(selected)}

\* the rows of the selected collection whose content window overlaps a
\* range: content_start <= range.end, and content_end absent or after
\* range.start
Overlapping(range) ==
    {row \in RowsOfSelected :
        /\ "content_start" \in DOMAIN row
        /\ DtLeq(row.content_start, range.end)
        /\ \/ "content_end" \notin DOMAIN row
           \/ DtLess(range.start, row.content_end)}

\* C26: a range query on ContentStartIndex is sound and complete over the
\* selected collection: a row is returned if and only if
\* content_start <= range.end and (content_end is absent or
\* content_end > range.start)
C26_ContentQuerySoundComplete ==
    selected # NoSelection =>
        \A range \in QueryRanges, index \in {None, Some(CONTENT)},
           ascending \in BOOLEAN :
            \A seq \in query_metadata_items(selected, sourceTable,
                                            Some(range), index, ascending) :
                Items(seq) = Overlapping(range)

\* a content query for a range that starts within a second has returned a
\* row without a content end and omitted a row whose window ended before
C26_Witness ==
    /\ selected # NoSelection
    /\ resp.call = "query_metadata_items"
    /\ resp.status = "OK"
    /\ LET range == [start |-> <<10, 500000>>, end |-> <<11, 0>>]
       IN  /\ Items(resp.result) = Overlapping(range)
           /\ Overlapping(range) # {}
           /\ \E row \in RowsOfSelected \ Overlapping(range) :
                "content_end" \in DOMAIN row
           /\ \E row \in Overlapping(range) : "content_end" \notin DOMAIN row

\* the rows of the selected collection released within a range, both ends
\* included
ReleasedWithin(range) ==
    {row \in RowsOfSelected :
        /\ "release_date" \in DOMAIN row
        /\ DtLeq(range.start, <<row.release_date, 0>>)
        /\ DtLeq(<<row.release_date, 0>>, range.end)}

\* the rows of the selected collection released within a range whose ends
\* are cut to their whole epoch seconds, both ends included
ReleasedWithinSeconds(range) ==
    {row \in RowsOfSelected :
        /\ "release_date" \in DOMAIN row
        /\ range.start[1] <= row.release_date
        /\ row.release_date <= range.end[1]}

\* a query without a range and without an index yields every source row of
\* the selected collection and no row of another collection
UnrangedQueryYieldsCollection ==
    \A ascending \in BOOLEAN :
        \A seq \in query_metadata_items(selected, sourceTable, None, None,
                                        ascending) :
            Items(seq) = RowsOfSelected

\* C27 as stated: a range query on ReleaseDateIndex returns exactly the rows
\* of the selected collection whose release_date lies between the range
\* bounds, both ends included, and a query with no range and no index
\* returns every source row of the selected collection and no other
C27_ReleaseQueryExact ==
    selected # NoSelection =>
        /\ \A range \in QueryRanges, ascending \in BOOLEAN :
            \A seq \in query_metadata_items(selected, sourceTable,
                                            Some(range), Some(RELEASE),
                                            ascending) :
                Items(seq) = ReleasedWithin(range)
        /\ UnrangedQueryYieldsCollection

\* C27, amended: a range query on ReleaseDateIndex returns exactly the rows
\* of the selected collection whose release_date lies between the range
\* bounds, each cut to its whole epoch second, both ends included, and a
\* query with no range and no index returns every source row of the
\* selected collection and no row of any other collection
C27_ReleaseQueryWholeSeconds ==
    selected # NoSelection =>
        /\ \A range \in QueryRanges, ascending \in BOOLEAN :
            \A seq \in query_metadata_items(selected, sourceTable,
                                            Some(range), Some(RELEASE),
                                            ascending) :
                Items(seq) = ReleasedWithinSeconds(range)
        /\ UnrangedQueryYieldsCollection

\* a release query for a range that starts within a second has returned a
\* row released at the start of that second and omitted an earlier one,
\* while the other collection holds a row too
C27_Witness ==
    /\ selected # NoSelection
    /\ resp.call = "query_metadata_items"
    /\ resp.status = "OK"
    /\ sourceTable # RowsOfSelected
    /\ LET range == [start |-> <<10, 500000>>, end |-> <<11, 0>>]
       IN  /\ Items(resp.result) = ReleasedWithinSeconds(range)
           /\ Items(resp.result) # ReleasedWithin(range)
           /\ Items(resp.result) # {}
           /\ Items(resp.result) # RowsOfSelected

\* the sort key of the index a query runs on
SortKeyOf(query_range, index) ==
    IF query_range = None /\ index = None THEN "release_date"
    ELSE IF index = None THEN "content_start"
    ELSE INDEX_INFO[index[1]].range

\* the sort-key values of a sequence of rows never fall
NonDecreasing(seq, key) ==
    \A i \in 1..(Len(seq) - 1) :
        EpochOf(seq[i], key) <= EpochOf(seq[i + 1], key)

\* the sort-key values of a sequence of rows never rise
NonIncreasing(seq, key) ==
    \A i \in 1..(Len(seq) - 1) :
        EpochOf(seq[i], key) >= EpochOf(seq[i + 1], key)

\* C28: query_metadata_items yields rows with non-decreasing sort-key values
\* of the chosen index when ascending is true and non-increasing ones when
\* it is false, and both directions yield the same set of rows
C28_QueryOrdered ==
    selected # NoSelection =>
        \A query_range \in QueryRangeArgs, index \in QueryIndexArgs :
            LET up == query_metadata_items(selected, sourceTable,
                                           query_range, index, TRUE)
                down == query_metadata_items(selected, sourceTable,
                                             query_range, index, FALSE)
                key == SortKeyOf(query_range, index)
            IN  /\ up # {} /\ down # {}
                /\ \A seq \in up : NonDecreasing(seq, key)
                /\ \A seq \in down : NonIncreasing(seq, key)
                /\ \A a \in up, b \in down : Items(a) = Items(b)

\* a query has yielded two rows, the later released first
C28_Witness ==
    /\ resp.call = "query_metadata_items"
    /\ resp.status = "OK"
    /\ Len(resp.result) = 2
    /\ resp.result[1].release_date = 10
    /\ resp.result[2].release_date = 9

-----------------------------------------------------------------------------
\* Source records while the required fields of their collection are
\* replaced: a client that has selected "test_collection" stores files and
\* updates rows, and it and a peer replace the required fields.

RecordCollection == "test_collection"

\* the names the required_metadata_fields property returns for an entry:
\* the primary key fields, then the other required fields
RequiredOf(entry) ==
    Items(entry.primary_key_fields) \cup Items(entry.required_metadata_fields)

\* a validation that misses nothing
MissingNothing(entry, metadata) == {}

\* _validate_fields(metadata) under a registry entry: the required fields
\* missing from the metadata
MissingFields(entry, metadata) ==
    ({FieldKey(k) : k \in RequiredOf(entry)}
        \cup {"retrieved_date", "release_date", "feed_id", "md5", "bytes"})
        \ DOMAIN metadata

\* store(file, force_store=True) by a client that reads the given registry
\* entry: get_primary_key, then store_source
store_record(table, bucket, coll, entry, file, uid) ==
    LET given == file.metadata
        hash_key == _generate_hash_key(coll, given.url)
        range_key == _generate_range_key(given.retrieved_date, uid)
        metadata == Updated(given,
                            [file_key |-> hash_key,
                             source_version |-> range_key,
                             feed_id |-> _get_collection_id(coll),
                             bytes |-> FALSE,
                             md5 |-> get_md5(file.content)])
        s3_key == _generate_s3_key(hash_key, range_key)
        uploaded == _s3_insert(bucket, s3_key, file.content)
        inserted == _insert_source_table_item(table,
                        Encoded(coll, Updated(metadata, [s3_key |-> s3_key])))
    IN  IF ~ ({FieldKey(k) : k \in Items(entry.primary_key_fields)}
                \subseteq DOMAIN given)
        THEN Effect(table, bucket, Raised("MetadataError"))
        ELSE IF "retrieved_date" \notin DOMAIN given
        THEN Effect(table, bucket, Raised("MetadataError"))
        ELSE IF MissingFields(entry, metadata) # {}
        THEN Effect(table, bucket, Raised("MetadataError"))
        ELSE IF inserted.raised
        THEN Effect(inserted.table, uploaded, Raised(ConditionalCheckFailed))
        ELSE Effect(inserted.table, uploaded,
                    Returned("SUCCESS", range_key, NoResult))

\* the dates the files were retrieved
RecordDates == {10, 11}

\* the files stored: with and without a filename, without a release date,
\* without a retrieved date
RecordFiles ==
    {[content |-> "A", metadata |-> m] :
        m \in {[url |-> "u1", retrieved_date |-> retrieved,
                release_date |-> 10, filename |-> "f"] :
                    retrieved \in RecordDates}
              \cup {[url |-> "u1", retrieved_date |-> retrieved,
                     release_date |-> 10] : retrieved \in RecordDates}
              \cup {[url |-> "u1", retrieved_date |-> 10, filename |-> "f"],
                    [url |-> "u1", release_date |-> 10, filename |-> "f"]}}

\* the required fields the collection is given
RequiredFieldArgs == {<<>>, <<"filename">>}

\* the update maps of update_metadata_item
RecordUpdates == {[retrieved_date |-> 11], [release_date |-> 11]}

\* store(file, force_store=True): the properties read the registry entry
\* through the cache
StoreRecord(file, uid) ==
    LET read == registry_property(selected, registryTable, registryCache,
                                  cachedAt, now, cacheTtl)
        effect == store_record(sourceTable, sourceBucket, selected,
                               read.entry[1], file, uid)
    IN  /\ RoomFor(sourceTable)
        /\ read.entry # None
        /\ registryCache' = read.cache
        /\ cachedAt' = read.times
        /\ sourceTable' = effect.table
        /\ sourceBucket' = effect.bucket
        /\ resp' = Call("store", effect.resp)
        /\ UNCHANGED <<selected, pc, pending, parsedBucket, registryTable,
                       now, lastScan, held, cacheTtl, sesh>>

\* update_source_registry(database, collection,
\* required_metadata_fields=fields) by the client
ReplaceRequiredFields(fields) ==
    LET updated == update_source_registry(registryTable, registryCache,
                       RecordCollection, None,
                       Some([kind |-> "tuple", items |-> fields]), None)
    IN  /\ registryTable' = updated.table
        /\ registryCache' = updated.cache
        /\ cachedAt' = Stamped(cachedAt, updated.cache, RecordCollection, now)
        /\ resp' = Call("update_source_registry",
                        IF updated.raised = ""
                        THEN Returned("OK", NoVersion, NoResult)
                        ELSE Raised(updated.raised))
        /\ UNCHANGED <<selected, sourceTable, sourceBucket, pc, pending,
                       parsedBucket, now, lastScan, held, cacheTtl, sesh>>

\* the same call by another client: the table changes, this client's cache
\* does not
PeerReplaceRequiredFields(fields) ==
    LET updated == update_source_registry(registryTable, <<>>,
                       RecordCollection, None,
                       Some([kind |-> "tuple", items |-> fields]), None)
    IN  /\ updated.raised = ""
        /\ registryTable' = updated.table
        /\ UNCHANGED <<selected, sourceTable, sourceBucket, resp, pc, pending,
                       parsedBucket, registryCache, now, cachedAt, lastScan,
                       held, cacheTtl, sesh>>

\* update_metadata_item(primary_key, source_version, update_map)
UpdateRecord(retrieved, uid, update_map) ==
    LET updated == update_metadata_item(sourceTable, selected, "u1",
                       _generate_range_key(retrieved, uid), update_map)
    IN  /\ sourceTable' = updated.table
        /\ resp' = Call("update_metadata_item",
                        IF updated.raised = ""
                        THEN Returned("OK", NoVersion, NoResult)
                        ELSE Raised(updated.raised))
        /\ UNCHANGED <<selected, sourceBucket, pc, pending, parsedBucket,
                       registryTable, registryCache, now, cachedAt, lastScan,
                       held, cacheTtl, sesh>>

RecordsInit ==
    /\ selected = RecordCollection
    /\ sourceTable = {}
    /\ sourceBucket = <<>>
    /\ resp = Call("init", Returned("init", NoVersion, NoResult))
    /\ pc = <<>>
    /\ pending = <<>>
    /\ parsedBucket = <<>>
    /\ registryTable = RegisteredCollections
    /\ registryCache = SelectedCached(RecordCollection)
    /\ now = 0
    /\ cachedAt = CachedAt(registryCache, now)
    /\ lastScan = None
    /\ held = None
    /\ cacheTtl = DEFAULT_CACHE_TTL
    /\ sesh = NoRole

RecordsNext ==
    \/ \E file \in RecordFiles, uid \in Uids : StoreRecord(file, uid)
    \/ \E fields \in RequiredFieldArgs : ReplaceRequiredFields(fields)
    \/ \E fields \in RequiredFieldArgs : PeerReplaceRequiredFields(fields)
    \/ \E retrieved \in RecordDates, uid \in Uids,
          update_map \in RecordUpdates :
            UpdateRecord(retrieved, uid, update_map)

SpecRecords == RecordsInit /\ [][RecordsNext]_vars

-----------------------------------------------------------------------------
\* Properties of the stored source records.

\* lowercase hexadecimal characters
HexChars == (48..57) \cup (97..102)

\* a version of the form <epoch>_<8hex> for the given epoch seconds
VersionOf(version, epoch) ==
    LET prefix == Digits(epoch) \o <<Underscore>>
    IN  /\ Len(version) = Len(prefix) + UidLen
        /\ SubSeq(version, 1, Len(prefix)) = prefix
        /\ \A i \in (Len(prefix) + 1)..Len(version) : version[i] \in HexChars

\* the fields every source record holds whatever the collection requires,
\* and the form of its version
RecordComplete(R) ==
    /\ {"url", "retrieved_date", "release_date", "feed_id", "source_version",
        "md5", "bytes", "s3_key"} \subseteq DOMAIN R
    /\ VersionOf(R.source_version, R.retrieved_date)

\* C30 as stated: every stored source record R satisfies
\* validate(R, parsed=false): its complete primary key, every required
\* field, retrieved_date, release_date, collection_id, source_version, md5,
\* bytes and s3_key are present, and R.source_version has the form
\* <epoch>_<8hex> with <epoch> the epoch seconds of R.retrieved_date
C30_RecordsValid ==
    \A R \in sourceTable :
        /\ RecordComplete(R)
        /\ MissingFields(registryTable[RecordCollection], R) = {}

\* a record stored in a step satisfies validate under the registry entry
\* the storing client read
StoredRecordsValidated ==
    \A R \in sourceTable' :
        ItemKey(R) \notin {ItemKey(S) : S \in sourceTable} =>
            MissingFields(CachedRead.entry[1], R) = {}

\* C30, amended: every stored source record R holds its complete primary
\* key, retrieved_date, release_date, collection_id, source_version, md5,
\* bytes and s3_key, and satisfied validate(R, parsed=false) under the
\* required fields the storing client read for the collection when R was
\* stored; R.source_version has the form <epoch>_<8hex> with <epoch> the
\* epoch seconds of R.retrieved_date
C30_RecordsValidWhenStored ==
    /\ [] (\A R \in sourceTable : RecordComplete(R))
    /\ [][StoredRecordsValidated]_vars

\* a record without a filename is stored, its release date has been
\* updated, and the filename is required of the collection now
C30_Witness ==
    /\ \E R \in sourceTable :
        /\ "filename" \notin DOMAIN R
        /\ R.release_date = 11
        /\ RecordComplete(R)
    /\ \E R \in sourceTable : "filename" \in DOMAIN R
    /\ "filename" \in RequiredOf(registryTable[RecordCollection])
    /\ resp.call = "store"
    /\ resp.status = "MetadataError"

-----------------------------------------------------------------------------
\* The value codec (types.py): encode and decode. Strings are sequences of
\* byte values; a JSON list is the tuple of its elements; times and offsets
\* are in milliseconds.

\* NONE_TYPE_STR: str(type(None)), "<class 'NoneType'>"
NONE_TYPE_STR == <<60, 99, 108, 97, 115, 115, 32, 39, 78, 111, 110, 101, 84, 121, 112, 101, 39, 62>>

\* NAIVE_TAG: "Naive"
NAIVE_TAG == <<78, 97, 105, 118, 101>>

Minus == 45
Dot == 46

RECURSIVE ParseDigits(_)
\* int(s) of a string of decimal digits
ParseDigits(s) ==
    IF s = <<>> THEN 0
    ELSE ParseDigits(SubSeq(s, 1, Len(s) - 1)) * 10 + (s[Len(s)] - 48)

\* str(n) of an int
IntStr(n) == IF n < 0 THEN <<Minus>> \o Digits(-n) ELSE Digits(n)

\* int(s)
ParseInt(s) ==
    IF s # <<>> /\ s[1] = Minus THEN -ParseDigits(Tail(s)) ELSE ParseDigits(s)

RECURSIVE Pow10(_)
Pow10(k) == IF k = 0 THEN 1 ELSE 10 * Pow10(k - 1)

RECURSIVE PadZeros(_, _)
\* digits, filled with leading zeros to a width
PadZeros(digits, width) ==
    IF Len(digits) >= width THEN digits
    ELSE PadZeros(<<48>> \o digits, width)

\* the decimal string of n / 10^scale, with scale >= 1 fraction digits
Fixed(n, scale) ==
    LET magnitude == IF n < 0 THEN -n ELSE n
    IN  (IF n < 0 THEN <<Minus>> ELSE <<>>)
            \o Digits(magnitude \div Pow10(scale))
            \o <<Dot>>
            \o PadZeros(Digits(magnitude % Pow10(scale)), scale)

\* the number a decimal string with a point denotes: n / 10^scale
ParseFixed(s) ==
    LET negative == s[1] = Minus
        digits == IF negative THEN Tail(s) ELSE s
        dot == CHOOSE i \in 1..Len(digits) : digits[i] = Dot
        fraction == SubSeq(digits, dot + 1, Len(digits))
        magnitude == ParseDigits(SubSeq(digits, 1, dot - 1))
                         * Pow10(Len(fraction)) + ParseDigits(fraction)
    IN  [n |-> IF negative THEN -magnitude ELSE magnitude,
         scale |-> Len(fraction)]

RECURSIVE Shortest(_, _)
\* n / 10^scale without trailing zeros, one fraction digit kept: the digits
\* repr(float) writes for it
Shortest(n, scale) ==
    IF scale > 1 /\ n % 10 = 0 /\ n >= 0 THEN Shortest(n \div 10, scale - 1)
    ELSE IF scale > 1 /\ n < 0 /\ (-n) % 10 = 0
    THEN Shortest(-((-n) \div 10), scale - 1)
    ELSE [n |-> n, scale |-> scale]

\* int(offset.total_seconds()) of an offset in milliseconds: cut toward zero
OffsetSeconds(ms) == IF ms >= 0 THEN ms \div 1000 ELSE -((-ms) \div 1000)

\* the zones of pytz used, and their offsets from UTC
PytzZones == {<<85, 84, 67>>, <<69, 83, 84>>}

PytzOffset(zone) == IF zone = <<69, 83, 84>> THEN -18000000 ELSE 0

\* tz.utcoffset(dt) of a timezone value, in milliseconds
utcoffset(tz) ==
    IF tz.type = "TZFILE_PYTZ" THEN PytzOffset(tz.zone) ELSE tz.offset

\* encode of a timezone value
encode_tz(value) ==
    IF value.type = "TZFILE_PYTZ"
    THEN [val_str |-> value.zone, val_type |-> value.type]
    ELSE IF value.type = "TZOFFSET_DATEUTIL"
    THEN [val_str |-> <<value.name, IntStr(OffsetSeconds(value.offset))>>,
          val_type |-> value.type]
    ELSE [val_str |-> IntStr(OffsetSeconds(value.offset)),
          val_type |-> value.type]

\* encode(value): the string and the type tag
encode(value) ==
    IF value.type = "NONE"
    THEN [val_str |-> NONE_TYPE_STR, val_type |-> "NONE"]
    ELSE IF value.type = "BOOL"
    THEN [val_str |-> IntStr(IF value.bool THEN 1 ELSE 0), val_type |-> "BOOL"]
    ELSE IF value.type = "STR"
    THEN [val_str |-> value.str, val_type |-> "STR"]
    ELSE IF value.type = "INT"
    THEN [val_str |-> IntStr(value.int), val_type |-> "INT"]
    ELSE IF value.type = "FLOAT"
    THEN [val_str |-> Fixed(value.tenths, 1), val_type |-> "FLOAT"]
    ELSE IF value.type = "DECIMAL"
    THEN [val_str |-> IF value.scale = 0 THEN IntStr(value.n)
                      ELSE Fixed(value.n, value.scale),
          val_type |-> "DECIMAL"]
    ELSE IF value.type = "DATETIME"
    THEN [val_str |->
            <<[wall |-> value.wall,
               offset |-> IF value.tzinfo = None THEN None
                          ELSE Some(utcoffset(value.tzinfo[1]))],
              IF value.tzinfo = None THEN NAIVE_TAG
              ELSE <<encode_tz(value.tzinfo[1]).val_str,
                     encode_tz(value.tzinfo[1]).val_type>>>>,
          val_type |-> "DATETIME"]
    ELSE IF value.type = "TIMEDELTA"
    THEN LET seconds == Shortest(value.micros, 6)
         IN  [val_str |-> Fixed(seconds.n, seconds.scale),
              val_type |-> "TIMEDELTA"]
    ELSE encode_tz(value)

\* decode of an encoded timezone
decode_tz(encoded) ==
    IF encoded.val_type = "TZFILE_PYTZ"
    THEN [type |-> "TZFILE_PYTZ", zone |-> encoded.val_str]
    ELSE IF encoded.val_type = "TZOFFSET_DATEUTIL"
    THEN [type |-> "TZOFFSET_DATEUTIL", name |-> encoded.val_str[1],
          offset |-> 1000 * ParseInt(encoded.val_str[2])]
    ELSE [type |-> "TZOFFSET_TZ", offset |-> 1000 * ParseInt(encoded.val_str)]

\* decode(encoded): None whenever the string is NONE_TYPE_STR, whatever the
\* type tag; else the value the type tag and the string give
decode(encoded) ==
    LET val_str == encoded.val_str
        val_type == encoded.val_type
    IN  IF val_str = NONE_TYPE_STR THEN [type |-> "NONE"]
        ELSE IF val_type = "STR" THEN [type |-> "STR", str |-> val_str]
        ELSE IF val_type = "INT"
        THEN [type |-> "INT", int |-> ParseInt(val_str)]
        ELSE IF val_type = "FLOAT"
        THEN [type |-> "FLOAT",
              tenths |-> ParseFixed(val_str).n
                            * Pow10(1 - ParseFixed(val_str).scale)]
        ELSE IF val_type = "DECIMAL"
        THEN IF \E i \in 1..Len(val_str) : val_str[i] = Dot
             THEN [type |-> "DECIMAL", n |-> ParseFixed(val_str).n,
                   scale |-> ParseFixed(val_str).scale]
             ELSE [type |-> "DECIMAL", n |-> ParseInt(val_str), scale |-> 0]
        ELSE IF val_type = "BOOL"
        THEN [type |-> "BOOL", bool |-> ParseInt(val_str) # 0]
        ELSE IF val_type = "DATETIME"
        THEN IF val_str[2] = NAIVE_TAG
             THEN [type |-> "DATETIME", wall |-> val_str[1].wall,
                   tzinfo |-> None]
             ELSE LET tz == decode_tz([val_str |-> val_str[2][1],
                                       val_type |-> val_str[2][2]])
                      instant == val_str[1].wall - val_str[1].offset[1]
                  IN  [type |-> "DATETIME", wall |-> instant + utcoffset(tz),
                       tzinfo |-> Some(tz)]
        ELSE IF val_type = "TIMEDELTA"
        THEN [type |-> "TIMEDELTA",
              micros |-> ParseFixed(val_str).n
                            * Pow10(6 - ParseFixed(val_str).scale)]
        ELSE decode_tz(encoded)

\* a == b of Python for two values of the codec: timezones are equal when
\* their offsets are (pytz zones when they are the same zone), datetimes
\* with a timezone when they are the same instant
PyEq(a, b) ==
    IF a.type # b.type THEN FALSE
    ELSE IF a.type \in {"TZOFFSET_DATEUTIL", "TZOFFSET_TZ"}
    THEN a.offset = b.offset
    ELSE IF a.type = "DATETIME"
    THEN IF a.tzinfo = None \/ b.tzinfo = None
         THEN a.tzinfo = None /\ b.tzinfo = None /\ a.wall = b.wall
         ELSE a.wall - utcoffset(a.tzinfo[1]) = b.wall - utcoffset(b.tzinfo[1])
    ELSE a = b

\* the timezone values: pytz zones, dateutil offsets with and without a
\* name, and datetime.timezone offsets, one of them of a second and a half
TzValues ==
    {[type |-> "TZFILE_PYTZ", zone |-> z] : z \in PytzZones}
    \cup {[type |-> "TZOFFSET_DATEUTIL", name |-> n, offset |-> o] :
            n \in {<<69, 83, 84>>, <<>>}, o \in {-18000000, 3600000}}
    \cup {[type |-> "TZOFFSET_TZ", offset |-> o] :
            o \in {-18000000, 0, 3600000, 1500}}

\* the values encoded: one or more of every supported type
CodecValues ==
    {[type |-> "NONE"]}
    \cup {[type |-> "STR", str |-> v] :
            v \in {<<>>, <<97>>, <<49>>, NAIVE_TAG, NONE_TYPE_STR}}
    \cup {[type |-> "INT", int |-> v] : v \in {-12, -1, 0, 7, 100}}
    \cup {[type |-> "BOOL", bool |-> v] : v \in BOOLEAN}
    \cup {[type |-> "FLOAT", tenths |-> v] : v \in {-15, -5, 0, 5, 120}}
    \cup {[type |-> "DECIMAL", n |-> v, scale |-> k] :
            v \in {-110, 0, 5}, k \in {0, 1, 2}}
    \cup {[type |-> "DATETIME", wall |-> w, tzinfo |-> tz] :
            w \in {10000, 10500},
            tz \in {None} \cup {Some(z) : z \in TzValues}}
    \cup {[type |-> "TIMEDELTA", micros |-> v] :
            v \in {-500000, 0, 5, 1000005, 60000000}}
    \cup TzValues

\* encode(value) of the value at hand
Encode ==
    /\ resp.call = "init"
    /\ resp' = Call("encode", Returned("OK", NoVersion, encode(pending)))
    /\ UNCHANGED <<selected, sourceTable, sourceBucket, pc, pending,
                   parsedBucket, registryTable, registryCache, now, cachedAt,
                   lastScan, held, cacheTtl, sesh>>

\* decode of what encode returned
Decode ==
    /\ resp.call = "encode"
    /\ resp' = Call("decode", Returned("OK", NoVersion, decode(resp.result)))
    /\ UNCHANGED <<selected, sourceTable, sourceBucket, pc, pending,
                   parsedBucket, registryTable, registryCache, now, cachedAt,
                   lastScan, held, cacheTtl, sesh>>

CodecInit ==
    /\ pending \in CodecValues
    /\ selected = NoSelection
    /\ sourceTable = {}
    /\ sourceBucket = <<>>
    /\ resp = Call("init", Returned("init", NoVersion, NoResult))
    /\ pc = <<>>
    /\ parsedBucket = <<>>
    /\ registryTable = <<>>
    /\ registryCache = <<>>
    /\ now = 0
    /\ cachedAt = <<>>
    /\ lastScan = None
    /\ held = None
    /\ cacheTtl = DEFAULT_CACHE_TTL
    /\ sesh = NoRole

CodecNext == Encode \/ Decode

SpecCodec == CodecInit /\ [][CodecNext]_vars

\* C29: for every supported value v (None, str, int, bool, float, Decimal,
\* datetime naive or zoned, timedelta, the three timezone variants),
\* decode(encode(v)) == v, with datetimes compared as the same instant
C29_RoundTrip ==
    resp.call = "decode" => PyEq(resp.result, pending)

\* the round trip gives back every value but the string that spells
\* NONE_TYPE_STR and the timezones whose offset is not in whole seconds
RoundTripExceptSentinel ==
    /\ resp.call = "decode"
    /\ ~ PyEq(resp.result, pending)
    => \/ pending = [type |-> "STR", str |-> NONE_TYPE_STR]
       \/ pending.type = "TZOFFSET_TZ" /\ pending.offset % 1000 # 0

-----------------------------------------------------------------------------
\* The collection id of the source rows under stores, parsed stores and
\* updates of the metadata, feed_id among the fields written.

\* parsed files that set content_start, and one that also names another
\* collection in feed_id
FeedEdits == {"whole_second", "other_feed"}

\* update maps that set content_start and that set feed_id
FeedUpdateMaps ==
    {[content_start |-> <<1, 0>>], [feed_id |-> <<Database, "_", "other">>]}

FeedNext ==
    \/ \E f \in ParsedSourceFiles, uid \in ParsedUids : StoreSource(f, uid)
    \/ \E f \in ParsedSourceFiles, uid \in ParsedUids, edit \in FeedEdits,
          content \in ParsedContents :
            StoreParsed(f, uid, edit, content, NoParser)
    \/ \E url \in ParsedPKeys, v \in ParsedVersions,
          update_map \in FeedUpdateMaps :
            UpdateMetadataItem(url, v, update_map)

SpecFeed == InitParsed /\ [][FeedNext]_vars

\* the collection a file_key is made for: its prefix is
\* <database>/<collection>
CollectionOfKey(file_key) == file_key[2]

\* C31: after any sequence of store (source and parsed) and
\* update_metadata_item operations, collection_id of every source row equals
\* database + "_" + collection of the collection whose file_key prefix the
\* row carries
C31_CollectionIdMatchesKey ==
    \A row \in sourceTable :
        row.feed_id = _get_collection_id(CollectionOfKey(row.file_key))

\* the stores alone keep the collection id: a row whose feed_id differs from
\* its key's collection was written by update_metadata_item or by a parsed
\* store
FeedChangedOnlyByUpdates ==
    (\E row \in sourceTable' :
        /\ row.feed_id # _get_collection_id(CollectionOfKey(row.file_key))
        /\ row \notin sourceTable)
    => resp'.call \in {"update_metadata_item", "store_parsed"}

FeedOnlyByUpdates == [][FeedChangedOnlyByUpdates]_vars

-----------------------------------------------------------------------------
\* Source stores of files that lack a field: store without force_store and
\* without a compare callback, and store with force_store, on files with
\* whatever metadata they carry.

\* store(file): get_primary_key; with a latest stored version of the primary
\* key, ALREADY_EXIST when its md5 is the file's or when last-modified is
\* required and equal (file.metadata[mod_key] raises KeyError when the file
\* has none); else store_source
store_file(table, bucket, coll, file, uid) ==
    LET given == file.metadata
        latest == LatestItem(table, _generate_hash_key(coll, given.url))
    IN  IF MissingPrimaryKey(coll, given) # {}
        THEN Effect(table, bucket, Raised("MetadataError"))
        ELSE IF latest = <<>>
        THEN force_store(table, bucket, coll, file, uid)
        ELSE IF latest[1].md5 = get_md5(file.content)
        THEN Effect(table, bucket,
                    Returned("ALREADY_EXIST", latest[1].source_version,
                             NoResult))
        ELSE IF ~ InSeq("last-modified", required_metadata_fields(coll))
        THEN force_store(table, bucket, coll, file, uid)
        ELSE IF "last_modified" \notin DOMAIN given
        THEN Effect(table, bucket, Raised("KeyError"))
        ELSE IF latest[1].last_modified = given.last_modified
        THEN Effect(table, bucket,
                    Returned("ALREADY_EXIST", latest[1].source_version,
                             NoResult))
        ELSE force_store(table, bucket, coll, file, uid)

\* the metadata of the complete files: one primary key, one retrieved date
CompleteMetadata ==
    {[url |-> "u1", retrieved_date |-> 10, release_date |-> 10,
      filename |-> "f", last_modified |-> 1]}

\* the fields a test file carries
FileFields == {"url", "retrieved_date", "release_date", "filename",
               "last_modified"}

\* the files stored: complete ones, and each with one field popped
FieldFiles ==
    {[content |-> c, metadata |-> m] :
        c \in Contents,
        m \in CompleteMetadata
              \cup {Without(n, field) :
                        n \in CompleteMetadata, field \in FileFields}}

\* store(file) and store(file, force_store=True); the file stored is kept
\* with the state it was stored in
StoreFile(file, uid, forced) ==
    LET effect == IF forced
                  THEN force_store(sourceTable, sourceBucket, selected, file,
                                   uid)
                  ELSE store_file(sourceTable, sourceBucket, selected, file,
                                  uid)
    IN  /\ RoomFor(sourceTable)
        /\ sourceTable' = effect.table
        /\ sourceBucket' = effect.bucket
        /\ resp' = Call("store", effect.resp)
        /\ pending' = [file |-> file, forced |-> forced,
                       table |-> sourceTable, bucket |-> sourceBucket]
        /\ UNCHANGED <<selected, pc, parsedBucket, registryTable,
                       registryCache, now, cachedAt, lastScan, held, cacheTtl, sesh>>

FieldsNext ==
    \E file \in FieldFiles, uid \in Uids, forced \in BOOLEAN :
        StoreFile(file, uid, forced)

SpecFields == InitParsed /\ [][FieldsNext]_vars

\* the fields a source store of the selected collection needs in the
\* metadata: the primary key, the required fields, retrieved_date and
\* release_date
NeededFields ==
    {FieldKey(k) : k \in Items(required_metadata_fields(selected))}
        \cup {"retrieved_date", "release_date"}

\* a store has just run on a file that lacked a needed field
StoredLacking ==
    /\ resp.call = "store"
    /\ ~ (NeededFields \subseteq DOMAIN pending.file.metadata)

\* a store has just run on a complete file while no version of its primary
\* key was stored
StoredCompleteFirst ==
    /\ resp.call = "store"
    /\ NeededFields \subseteq DOMAIN pending.file.metadata
    /\ LatestItem(pending.table,
                  _generate_hash_key(selected, pending.file.metadata.url))
          = <<>>

\* C32: a source store whose metadata lacks a primary-key field, a required
\* metadata field, retrieved_date or release_date raises MetadataError and
\* leaves both the source table and the source bucket unchanged; the same
\* file stores successfully once the field is supplied
C32_MissingFieldRaises ==
    /\ StoredLacking =>
        /\ resp.status = "MetadataError"
        /\ sourceTable = pending.table
        /\ sourceBucket = pending.bucket
    /\ StoredCompleteFirst => resp.status = "SUCCESS"

\* what holds of the code: a store of a file that lacks a field leaves the
\* table and the bucket unchanged, and raises MetadataError when it is
\* forced or no version of the primary key is stored; a complete file is
\* stored when no version of its primary key is
MissingFieldNeverStored ==
    /\ StoredLacking =>
        /\ sourceTable = pending.table
        /\ sourceBucket = pending.bucket
        /\ resp.status \in {"MetadataError", "ALREADY_EXIST", "KeyError"}
        /\ \/ pending.forced
           \/ "url" \notin DOMAIN pending.file.metadata
           \/ LatestItem(pending.table,
                    _generate_hash_key(selected, pending.file.metadata.url))
                 = <<>>
           => resp.status = "MetadataError"
    /\ StoredCompleteFirst => resp.status = "SUCCESS"

-----------------------------------------------------------------------------
\* delete.

\* delete(primary_key, source_version, parsed_files_only, parser_name): the
\* body of the method is `raise NotImplementedError`; nothing is read and
\* nothing is removed
delete(table, bucket, parsed, coll, url, source_version) ==
    [table |-> table, bucket |-> bucket, parsed |-> parsed,
     resp |-> Raised("NotImplementedError")]

\* delete(primary_key, source_version); the key and the table it was called
\* on are kept
Delete(url, source_version) ==
    LET effect == delete(sourceTable, sourceBucket, parsedBucket, selected,
                         url, source_version)
    IN  /\ sourceTable' = effect.table
        /\ sourceBucket' = effect.bucket
        /\ parsedBucket' = effect.parsed
        /\ resp' = Call("delete", effect.resp)
        /\ pending' = [url |-> url, source_version |-> source_version,
                       table |-> sourceTable]
        /\ UNCHANGED <<selected, pc, registryTable, registryCache, now,
                       cachedAt, lastScan, held, cacheTtl, sesh>>

\* the versions deleted: those of the stored files
DeleteVersions ==
    {_generate_range_key(f.retrieved_date, uid) :
        f \in ParsedSourceFiles, uid \in ParsedUids}

DeleteNext ==
    \/ \E f \in ParsedSourceFiles, uid \in ParsedUids : StoreSource(f, uid)
    \/ \E f \in ParsedSourceFiles, uid \in ParsedUids,
          content \in ParsedContents, parser_name \in ParserNames :
            StoreParsed(f, uid, "whole_second", content, parser_name)
    \/ \E url \in ParsedPKeys, v \in DeleteVersions : Delete(url, v)

SpecDelete == InitParsed /\ [][DeleteNext]_vars

\* C33: delete with a source_version removes the source row and every
\* parsed-file object of that (file_key, source_version), so that a later
\* retrieve of that version fails, and leaves every other version of the same
\* primary key retrievable and unchanged
C33_DeleteRemovesVersion ==
    resp.call = "delete" =>
        LET hash_key == _generate_hash_key(selected, pending.url)
            version == pending.source_version
        IN  /\ ~ HasItem(sourceTable, hash_key, version)
            /\ \A parser \in ParserNames :
                  _generate_parsed_s3_key(hash_key, version, parser)
                      \notin DOMAIN parsedBucket
            /\ retrieve(sourceTable, sourceBucket, selected, pending.url,
                        version, FALSE).status = "OperationError"
            /\ \A row \in pending.table :
                  ItemKey(row) # <<hash_key, version>>
                      => row \in sourceTable

\* what the code does: a delete raises NotImplementedError and leaves the
\* table and the buckets as they were
DeleteChangesNothing ==
    resp'.call = "delete" =>
        /\ resp'.status = "NotImplementedError"
        /\ UNCHANGED <<sourceTable, sourceBucket, parsedBucket>>

DeleteNotImplemented == [][DeleteChangesNothing]_vars

-----------------------------------------------------------------------------
\* The assumed-role session and the clients made from it.

\* timedelta(minutes=1), in seconds
Minute == 60

\* the clock of this section stops here
SeshMaxTime == 300

\* sesh_duration as configured, in seconds
SeshDurations == {120, 180}

ClientNames == {"s3", "dynamodb"}

\* the pages a paginated query or scan is answered in
PageCounts == {1, 2, 3}

\* a client: the renewal point of the session it was made from, or None for
\* a client of the default credentials
Client(session) == [sesh |-> session]

ClientOf(state, name) == IF name = "s3" THEN state._s3 ELSE state._dynamo

\* _renew_sesh: assume_iam_role gives a session that expires sesh_duration
\* from now; the renewal point is a minute earlier, and both clients are
\* dropped
_renew_sesh(state, t) ==
    [state EXCEPT !._sesh_expiry = Some(t + state._sesh_duration[1] - Minute),
                  !._s3 = None,
                  !._dynamo = None]

\* _get_client(name) at time t: the client returned, and the state after
\* the property has stored it
_get_client(state, name, t) ==
    LET client == ClientOf(state, name)
        renew == \/ state._sesh_expiry = None
                 \/ t >= state._sesh_expiry[1]
        renewed == IF state.role_arn /\ renew THEN _renew_sesh(state, t)
                   ELSE state
        made == IF state.role_arn /\ (renew \/ client = None)
                THEN Client(renewed._sesh_expiry)
                ELSE IF client = None
                THEN Client(None)
                ELSE client[1]
    IN  [client |-> made,
         state |-> IF name = "s3" THEN [renewed EXCEPT !._s3 = Some(made)]
                   ELSE [renewed EXCEPT !._dynamo = Some(made)]]

\* a request issued at time t through a client
Issued(kind, client, t) ==
    Call(kind, Returned("OK", NoVersion, [client |-> client, at |-> t]))

\* self._s3_client.<request>(...) / self._dynamo_client.<request>(...): the
\* accessor, then the request through the client it returns
Request(name) ==
    LET got == _get_client(sesh, name, now)
    IN  /\ sesh' = got.state
        /\ resp' = Issued("request", got.client, now)
        /\ UNCHANGED <<selected, sourceTable, sourceBucket, pc, pending,
                       parsedBucket, registryTable, registryCache, now,
                       cachedAt, lastScan, held, cacheTtl>>

\* paginator = self._dynamo_client.get_paginator(...): the accessor; the
\* generator then asks for the first page through the client it returned
Paginate(pages) ==
    LET got == _get_client(sesh, "dynamodb", now)
    IN  /\ pending = <<>>
        /\ sesh' = got.state
        /\ resp' = Issued("page", got.client, now)
        /\ pending' = IF pages = 1 THEN <<>>
                      ELSE [client |-> got.client, pages |-> pages - 1]
        /\ UNCHANGED <<selected, sourceTable, sourceBucket, pc, parsedBucket,
                       registryTable, registryCache, now, cachedAt, lastScan,
                       held, cacheTtl>>

\* the caller takes the next item of the generator: the paginator asks for
\* the next page through the client it was made from
NextPage ==
    /\ pending # <<>>
    /\ resp' = Issued("next_page", pending.client, now)
    /\ pending' = IF pending.pages = 1 THEN <<>>
                  ELSE [pending EXCEPT !.pages = @ - 1]
    /\ UNCHANGED <<selected, sourceTable, sourceBucket, pc, parsedBucket,
                   registryTable, registryCache, now, cachedAt, lastScan,
                   held, cacheTtl, sesh>>

\* half a minute passes
SeshTick ==
    /\ now + Minute \div 2 <= SeshMaxTime
    /\ now' = now + Minute \div 2
    /\ UNCHANGED <<selected, sourceTable, sourceBucket, resp, pc, pending,
                   parsedBucket, registryTable, registryCache, cachedAt,
                   lastScan, held, cacheTtl, sesh>>

\* a client with a role_arn and a session duration, or one without a role;
\* no session is assumed and no client is made before the first access
SeshInit ==
    /\ selected \in Collections
    /\ sourceTable = {}
    /\ sourceBucket = <<>>
    /\ resp = Call("init", Returned("init", NoVersion, NoResult))
    /\ pc = <<>>
    /\ pending = <<>>
    /\ parsedBucket = <<>>
    /\ registryTable = RegisteredCollections
    /\ registryCache = SelectedCached(selected)
    /\ now = 0
    /\ cachedAt = CachedAt(registryCache, now)
    /\ lastScan = None
    /\ held = None
    /\ cacheTtl = DEFAULT_CACHE_TTL
    /\ sesh \in {NoRole}
                \cup {[NoRole EXCEPT !.role_arn = TRUE,
                                     !._sesh_duration = Some(d)] :
                          d \in SeshDurations}

SeshNext ==
    \/ \E name \in ClientNames : Request(name)
    \/ \E pages \in PageCounts : Paginate(pages)
    \/ NextPage
    \/ SeshTick

SpecSesh == SeshInit /\ [][SeshNext]_vars

\* the request just issued went through a client of the default credentials
\* or of a session that had not reached its renewal point
ThroughFreshSession ==
    \/ resp.result.client.sesh = None
    \/ resp.result.at < resp.result.client.sesh[1]

\* C34: when a role-based session is configured, every client access made at
\* or after the renewal point (one minute before session expiry) reassumes
\* the role first, so no store or table request is ever issued through a
\* client created from a session that has passed its renewal point
C34_NoRequestPastRenewal ==
    resp.call \in {"request", "page", "next_page"} => ThroughFreshSession

\* what holds of the code: the requests issued at a client access, and the
\* first page of a paginator, go through a session that has not reached its
\* renewal point, and with a role configured never through the default
\* credentials
AccessRenewsFirst ==
    resp.call \in {"request", "page"} =>
        /\ ThroughFreshSession
        /\ sesh.role_arn => resp.result.client.sesh # None

-----------------------------------------------------------------------------
\* Collection ids of databases and collections named by character strings.

\* the names given: "a", "b" and "a_a"
IdNames == {<<97>>, <<98>>, <<97, Underscore, 97>>}

IdTypeMaps == {[url |-> "STR"], [url |-> "STR", row_count |-> "INT"]}

\* "_".join([db, coll])
collection_id(db, coll) == db \o <<Underscore>> \o coll

\* update_source_registry(database, collection, ("url",), None,
\* metadata_type_map): the entry is read and put under the collection id; a
\* new entry takes the names of the call, an entry that is found keeps the
\* names it holds and has its type map updated
register_collection(table, database, collection, metadata_type_map) ==
    LET id == collection_id(database, collection)
        entry == IF id \in DOMAIN table
                 THEN [table[id] EXCEPT
                         !.metadata_type_map = Updated(@, metadata_type_map)]
                 ELSE [feed_id |-> id,
                       database |-> database,
                       collection |-> collection,
                       primary_key_fields |-> <<"url">>,
                       metadata_type_map |-> metadata_type_map,
                       required_metadata_fields |-> <<>>,
                       parsers |-> <<>>]
    IN  PutEntry(table, id, entry)

\* update_source_registry(database, collection, ...); the names of the call
\* are kept
RegisterCollection(database, collection, metadata_type_map) ==
    /\ registryTable' = register_collection(registryTable, database,
                                            collection, metadata_type_map)
    /\ resp' = Call("update_source_registry",
                    Returned("OK", NoVersion, NoResult))
    /\ pending' = [database |-> database, collection |-> collection]
    /\ UNCHANGED <<selected, sourceTable, sourceBucket, pc, parsedBucket,
                   registryCache, now, cachedAt, lastScan, held, cacheTtl,
                   sesh>>

IdsNext ==
    \E database \in IdNames, collection \in IdNames,
       metadata_type_map \in IdTypeMaps :
        RegisterCollection(database, collection, metadata_type_map)

SpecIds == RegistryInit /\ [][IdsNext]_vars

\* C35: collection_id is a 1:1 identifier of (database, collection): two
\* distinct (database, collection) pairs never yield the same collection_id,
\* so registry entries and index rows of different collections never share a
\* key
C35_CollectionIdOneToOne ==
    resp.call = "update_source_registry" =>
        LET entry ==
                registryTable[collection_id(pending.database,
                                            pending.collection)]
        IN  /\ entry.database = pending.database
            /\ entry.collection = pending.collection

\* what holds of the code: the entry a call writes is filed under the id of
\* the names it holds
EntryFiledUnderItsId ==
    \A id \in DOMAIN registryTable :
        /\ registryTable[id].feed_id = id
        /\ collection_id(registryTable[id].database,
                         registryTable[id].collection) = id

-----------------------------------------------------------------------------
\* Two clients in update_source_registry on one registered collection.

RegistryClients == {"client_1", "client_2"}

SharedCollection == "load"

\* the type-map keys a client adds: each client has keys of its own
ClientTypeMaps(client) ==
    IF client = "client_1"
    THEN {[key_a |-> "INT"], [key_c |-> "INT"]}
    ELSE {[key_b |-> "STR"], [key_d |-> "STR"]}

AllClientTypeMaps ==
    {[key_a |-> "INT"], [key_c |-> "INT"], [key_b |-> "STR"],
     [key_d |-> "STR"]}

\* update_source_registry(database, collection, metadata_type_map=...) up to
\* the return of _get_registry_entry(use_cached=False): the client holds the
\* entry that get_item gave it
ReadRegistryEntry(client, metadata_type_map) ==
    /\ metadata_type_map \in ClientTypeMaps(client)
    /\ pc[client].at = "idle"
    /\ pc' = [pc EXCEPT ![client] = [@ EXCEPT !.at = "read",
                                              !.map = metadata_type_map]]
    /\ pending' = [pending EXCEPT ![client] =
                      [c \in {SharedCollection} |-> registryTable[c]]]
    /\ UNCHANGED <<selected, sourceTable, sourceBucket, resp, parsedBucket,
                   registryTable, registryCache, now, cachedAt, lastScan,
                   held, cacheTtl, sesh>>

\* the rest of the call: the type map of the entry held is updated, the
\* entry is checked and put_item writes it over the one in the table
PutRegistryEntry(client) ==
    LET updated == update_source_registry(pending[client], <<>>,
                       SharedCollection, None, None, Some(pc[client].map))
    IN  /\ pc[client].at = "read"
        /\ registryTable' = PutEntry(registryTable, SharedCollection,
                                     updated.table[SharedCollection])
        /\ pc' = [pc EXCEPT ![client] =
                     [at |-> "idle", map |-> <<>>,
                      added |-> @.added \cup DOMAIN pc[client].map]]
        /\ pending' = [pending EXCEPT ![client] = <<>>]
        /\ resp' = Call("update_source_registry",
                        IF updated.raised = ""
                        THEN Returned("OK", NoVersion, NoResult)
                        ELSE Raised(updated.raised))
        /\ UNCHANGED <<selected, sourceTable, sourceBucket, parsedBucket,
                       registryCache, now, cachedAt, lastScan, held,
                       cacheTtl, sesh>>

\* the collection is registered; no client is in a call
ClientsInit ==
    /\ selected = NoSelection
    /\ sourceTable = {}
    /\ sourceBucket = <<>>
    /\ resp = Call("init", Returned("init", NoVersion, NoResult))
    /\ pc = [client \in RegistryClients |->
                [at |-> "idle", map |-> <<>>, added |-> {}]]
    /\ pending = [client \in RegistryClients |-> <<>>]
    /\ parsedBucket = <<>>
    /\ registryTable =
          update_source_registry(<<>>, <<>>, SharedCollection,
                                 Some(<<"key1">>), None,
                                 Some([key1 |-> "INT"])).table
    /\ registryCache = <<>>
    /\ now = 0
    /\ cachedAt = <<>>
    /\ lastScan = None
    /\ held = None
    /\ cacheTtl = DEFAULT_CACHE_TTL
    /\ sesh = NoRole

ClientsNext ==
    \/ \E client \in RegistryClients,
          metadata_type_map \in AllClientTypeMaps :
            ReadRegistryEntry(client, metadata_type_map)
    \/ \E client \in RegistryClients : PutRegistryEntry(client)

SpecClients == ClientsInit /\ [][ClientsNext]_vars

\* C36: when two clients concurrently call update_source_registry on the
\* same existing collection, each adding a different type-map key, then
\* under every interleaving the final registry entry contains both keys (no
\* registry update is lost)
C36_NoRegistryUpdateLost ==
    (\A client \in RegistryClients : pc[client].at = "idle") =>
        \A client \in RegistryClients :
            pc[client].added
                \subseteq DOMAIN registryTable[SharedCollection].metadata_type_map

\* what holds of the code: a call that wrote over the entry it had read
\* removed no key, and every call leaves its own key in the entry it writes
PutKeepsWhatItRead ==
    \A client \in RegistryClients :
        /\ pc[client].at = "read"
        /\ pc'[client].at = "idle"
        => /\ DOMAIN pc[client].map
                \subseteq DOMAIN registryTable'[SharedCollection].metadata_type_map
           /\ DOMAIN pending[client][SharedCollection].metadata_type_map
                \subseteq DOMAIN registryTable'[SharedCollection].metadata_type_map

CallsKeepWhatTheyRead == [][PutKeepsWhatItRead]_vars

-----------------------------------------------------------------------------
\* File keys of a collection whose primary key has two fields.

\* a collection registered with primary_key_fields ("key1", "key2"), both
\* of type str
PairCollection == "load"

PairKeyTypes == <<"STR", "STR">>

\* the values given for a key field: "a", "a_a" and the int 1
PairKeyValues ==
    {[type |-> "STR", str |-> <<97>>],
     [type |-> "STR", str |-> <<97, Underscore, 97>>],
     [type |-> "INT", int |-> 1]}

RECURSIVE JoinUnderscore(_)
\* "_".join(parts)
JoinUnderscore(parts) ==
    IF Len(parts) = 0 THEN <<>>
    ELSE IF Len(parts) = 1 THEN parts[1]
    ELSE parts[1] \o <<Underscore>> \o JoinUnderscore(Tail(parts))

\* _serialize_primary_key: the epoch of a datetime, encode(v).val_str of any
\* other value, joined by "_"
_serialize_primary_key(primary_key) ==
    JoinUnderscore([i \in 1..Len(primary_key) |->
                       IF primary_key[i].type = "DATETIME"
                       THEN Digits(from_datetime(primary_key[i].at))
                       ELSE encode(primary_key[i]).val_str])

\* _validate_primary_keys: the length and the type of every value
_validate_primary_keys(primary_key) ==
    /\ Len(primary_key) = Len(PairKeyTypes)
    /\ \A i \in 1..Len(primary_key) : primary_key[i].type = PairKeyTypes[i]

\* _generate_hash_key of a primary key tuple: the digest stands for the
\* string it was made from
hash_key_of(coll, primary_key) ==
    <<Database, coll, <<"sha256", _serialize_primary_key(primary_key)>>>>

\* store(file, force_store=True) of a file whose metadata carries key1 and
\* key2: the row is inserted under the hash key of the two values
store_keyed(table, bucket, coll, primary_key, content, retrieved_date, uid) ==
    LET hash_key == hash_key_of(coll, primary_key)
        range_key == _generate_range_key(retrieved_date, uid)
        s3_key == _generate_s3_key(hash_key, range_key)
        metadata == [file_key |-> hash_key,
                     source_version |-> range_key,
                     key1 |-> primary_key[1],
                     key2 |-> primary_key[2],
                     retrieved_date |-> retrieved_date,
                     md5 |-> get_md5(content),
                     s3_key |-> s3_key]
        uploaded == _s3_insert(bucket, s3_key, content)
        inserted == _insert_source_table_item(table, metadata)
    IN  IF ~ _validate_primary_keys(primary_key)
        THEN Effect(table, bucket, Raised("MetadataError"))
        ELSE IF inserted.raised
        THEN Effect(inserted.table, uploaded, Raised(ConditionalCheckFailed))
        ELSE Effect(inserted.table, uploaded,
                    Returned("SUCCESS", range_key, NoResult))

StoreKeyed(key1, key2, content, uid) ==
    LET effect == store_keyed(sourceTable, sourceBucket, PairCollection,
                              <<key1, key2>>, content, 10, uid)
    IN  /\ RoomFor(sourceTable)
        /\ sourceTable' = effect.table
        /\ sourceBucket' = effect.bucket
        /\ resp' = Call("store", effect.resp)
        /\ UNCHANGED <<selected, pc, pending, parsedBucket, registryTable,
                       registryCache, now, cachedAt, lastScan, held,
                       cacheTtl, sesh>>

KeysNext ==
    \E key1 \in PairKeyValues, key2 \in PairKeyValues, content \in Contents,
       uid \in Uids :
        StoreKeyed(key1, key2, content, uid)

SpecKeys == RegistryInit /\ [][KeysNext]_vars

\* C37: within one collection, two primary keys with different value tuples
\* never derive the same file_key (serialization of the primary key before
\* hashing is injective), so versions of distinct logical files are never
\* mixed under one key
C37_FileKeyInjective ==
    \A r1 \in sourceTable, r2 \in sourceTable :
        r1.file_key = r2.file_key =>
            /\ r1.key1 = r2.key1
            /\ r1.key2 = r2.key2

\* what holds of the code: rows under one file_key have primary keys with the
\* same serialization
SameKeySameSerialization ==
    \A r1 \in sourceTable, r2 \in sourceTable :
        r1.file_key = r2.file_key <=>
            _serialize_primary_key(<<r1.key1, r1.key2>>)
                = _serialize_primary_key(<<r2.key1, r2.key2>>)

-----------------------------------------------------------------------------
\* Source rows and the objects their s3_key names.

\* store(file, force_store=True) with an upload that succeeds or raises:
\* when upload_fileobj raises, store_source is left before the insert
store_uploading(table, bucket, coll, f, uid, uploads) ==
    IF uploads
    THEN store(table, bucket, coll, f, TRUE, "none", uid)
    ELSE Effect(table, bucket, Raised("S3UploadFailedError"))

StoreUploading(f, uid, uploads) ==
    LET effect == store_uploading(sourceTable, sourceBucket, selected, f,
                                  uid, uploads)
    IN  /\ RoomFor(sourceTable)
        /\ sourceTable' = effect.table
        /\ sourceBucket' = effect.bucket
        /\ resp' = Call("store", effect.resp)
        /\ UNCHANGED <<selected, pc, pending, parsedBucket, registryTable,
                       registryCache, now, cachedAt, lastScan, held,
                       cacheTtl, sesh>>

\* the update maps given: a content_start, and an s3_key no object is
\* stored under
ObjectUpdateMaps ==
    {[content_start |-> <<1, 0>>],
     [s3_key |-> <<Database, "moved", <<48>>, <<"sha256", "u1">>>>]}

ObjectsNext ==
    \/ \E f \in Files, uid \in ParsedUids, uploads \in BOOLEAN :
          StoreUploading(f, uid, uploads)
    \/ \E url \in PKeys, v \in ParsedVersions,
          update_map \in ObjectUpdateMaps :
            UpdateMetadataItem(url, v, update_map)

SpecObjects == InitParsed /\ [][ObjectsNext]_vars

\* C38: in every reachable state, including after a store that failed
\* part-way, each source row's s3_key names an object that exists in the
\* source bucket: the upload completes before the row is inserted and no row
\* is inserted when the upload fails
C38_RowObjectsExist ==
    \A row \in sourceTable : row.s3_key \in DOMAIN sourceBucket

\* what holds of the code: a store, failed or not, leaves no new row without
\* its object, and a store whose upload raised leaves the table as it was
StoreKeepsRowObjects ==
    resp'.call = "store" =>
        /\ \A row \in sourceTable' \ sourceTable :
              row.s3_key \in DOMAIN sourceBucket'
        /\ DOMAIN sourceBucket \subseteq DOMAIN sourceBucket'
        /\ resp'.status = "S3UploadFailedError" =>
              UNCHANGED <<sourceTable, sourceBucket>>

StoresKeepRowObjects == [][StoreKeepsRowObjects]_vars

-----------------------------------------------------------------------------
\* Parsed stores that raise.

\* the step is a parsed store that raised
ParsedStoreRaised ==
    /\ resp'.call = "store_parsed"
    /\ resp'.status # "SUCCESS"

ParsedStoreAllOrNothing ==
    ParsedStoreRaised => UNCHANGED <<parsedBucket, sourceTable>>

\* C39: a parsed store is all-or-nothing: if it raises (for example because
\* the divergent fields include retrieved_date or a primary-key field, so the
\* source-row update is rejected), then no parsed object was uploaded or
\* overwritten and the source row is unchanged
C39_ParsedStoreAllOrNothing == [][ParsedStoreAllOrNothing]_vars

\* what holds of the code: a parsed store that raises leaves the source
\* table unchanged, and leaves the parsed bucket unchanged unless the error is
\* one of the source-row update, which runs after the upload
ParsedStoreRaisedKeepsRow ==
    ParsedStoreRaised =>
        /\ UNCHANGED sourceTable
        /\ resp'.status \notin {"MetadataError", "IndexError"}
              => UNCHANGED parsedBucket

RaisedParsedStoreKeepsRow == [][ParsedStoreRaisedKeepsRow]_vars

-----------------------------------------------------------------------------
\* Errors of update_metadata_item.

ClassifiedErrors == {"ArgumentError", "MetadataError", "OperationError"}

\* C40: for every non-empty update map, update_metadata_item either applies
\* the update or raises one of the classified errors (ArgumentError,
\* MetadataError, OperationError); in particular a map whose keys all lack a
\* type-map entry and hold non-string values does not escape as an
\* unclassified exception
C40_UpdateErrorsClassified ==
    resp.call = "update_metadata_item" =>
        resp.status \in ClassifiedErrors \cup {"OK"}

\* what holds of the code: the one unclassified exception is the IndexError
\* of a map from which every key was dropped
UpdateErrorsClassifiedWhenKept ==
    \A url \in PKeys, v \in ParsedVersions, update_map \in UpdateMaps :
        LET raised == update_metadata_item(sourceTable, selected, url, v,
                                           update_map).raised
        IN  /\ raised \in ClassifiedErrors \cup {"", "IndexError"}
            /\ raised = "IndexError" <=>
                  /\ update_map # EmptyMap
                  /\ DOMAIN Encoded(selected, update_map) = {}

====
